---- MODULE Spec2Model ----
(***************************************************************************)
(* Model of the chunking core of hexa-rag-mcp: src/src/chunker.ts and the  *)
(* AST chunker (dist/ast-chunker.js).  Texts are sequences of one-         *)
(* character strings; the regular expressions, split, trim and join of the *)
(* source are computed on those sequences character by character.          *)
(***************************************************************************)
EXTENDS Naturals, Integers, Sequences, FiniteSets, TLC

VARIABLES content, maxTokens, overlap, file, ast, pc, result, consulted, raised,
          chunking, currentModel, omitted, loop, run,
          disk, tables, sync_state, dbModel, job, requests

vars == <<content, maxTokens, overlap, file, ast, pc, result, consulted, raised,
          chunking, currentModel, omitted, loop, run,
          disk, tables, sync_state, dbModel, job, requests>>

\* ----------------------------------------------------------------- bounds
MaxPieces == 2
MaxTokens == 3
MaxOverlap == 1

\* ------------------------------------------------------------- characters
NL == "\n"
SP == " "
\* \s of the regular expressions and the characters trim() strips, within the
\* alphabet of the model
Whitespace == {SP, NL}
IsWs(c) == c \in Whitespace

\* ------------------------------------------------- String.prototype helpers
RECURSIVE TrimStart(_)
TrimStart(s) == IF s # <<>> /\ IsWs(Head(s)) THEN TrimStart(Tail(s)) ELSE s

RECURSIVE TrimEnd(_)
TrimEnd(s) ==
  IF s # <<>> /\ IsWs(s[Len(s)]) THEN TrimEnd(SubSeq(s, 1, Len(s) - 1)) ELSE s

trim(s) == TrimEnd(TrimStart(s))

RECURSIVE join(_, _)
join(list, sep) ==
  IF list = <<>> THEN <<>>
  ELSE IF Len(list) = 1 THEN list[1]
  ELSE list[1] \o sep \o join(Tail(list), sep)

\* Array.prototype.slice(-n)
sliceLast(list, n) ==
  IF Len(list) <= n THEN list ELSE SubSeq(list, Len(list) - n + 1, Len(list))

startsWith(s, prefix) ==
  Len(s) >= Len(prefix) /\ SubSeq(s, 1, Len(prefix)) = prefix

\* First position q >= p such that q is past the end of s or s[q] is not in
\* Class: where a greedy character-class repetition started at p stops.
RECURSIVE RunEnd(_, _, _)
RunEnd(s, p, Class) ==
  IF p <= Len(s) /\ s[p] \in Class THEN RunEnd(s, p + 1, Class) ELSE p

\* First position q >= p with s[q] = c, or Len(s) + 1
RECURSIVE IndexOf(_, _, _)
IndexOf(s, c, p) ==
  IF p > Len(s) \/ s[p] = c THEN p ELSE IndexOf(s, c, p + 1)

\* s.split("\n"); i is the position of the first newline
RECURSIVE splitLines(_), SplitLinesAt(_, _)
SplitLinesAt(s, i) ==
  IF i > Len(s) THEN <<s>>
  ELSE <<SubSeq(s, 1, i - 1)>> \o splitLines(SubSeq(s, i + 1, Len(s)))

splitLines(s) == SplitLinesAt(s, IndexOf(s, NL, 1))

\* First position q >= p where two newlines start (/\n\n+/ matches), or Len(s) + 1
RECURSIVE ParagraphBreak(_, _)
ParagraphBreak(s, p) ==
  IF p > Len(s) THEN Len(s) + 1
  ELSE IF s[p] = NL /\ p + 1 <= Len(s) /\ s[p + 1] = NL THEN p
  ELSE ParagraphBreak(s, p + 1)

\* s.split(/\n\n+/); i is the position of the first separator, which takes all
\* the newlines that follow
RECURSIVE splitParagraphs(_), SplitParagraphsAt(_, _)
SplitParagraphsAt(s, i) ==
  IF i > Len(s) THEN <<s>>
  ELSE <<SubSeq(s, 1, i - 1)>>
       \o splitParagraphs(SubSeq(s, RunEnd(s, i, {NL}), Len(s)))

splitParagraphs(s) == SplitParagraphsAt(s, ParagraphBreak(s, 1))

\* Mutant of estimateTokens: the quotient is rounded down
estimateTokens_Floor(text) == (2 * Len(text)) \div 7

\* ------------------------------------------------------------- chunker.ts
\* Math.ceil(text.length / 3.5)
estimateTokens(text) == (2 * Len(text) + 6) \div 7

\* Mutant of NonBlank: the filter forgets to trim
NonBlank_NoTrim(s) == Len(s) > 0

NonBlank(s) == Len(trim(s)) > 0

splitIntoSegments(text) == SelectSeq(splitParagraphs(text), NonBlank)

\* Mutant of LineFlush: an empty lineChunk is flushed too
LineFlush_NoGuard(ls, line, maxTok) ==
  ls.lineTokens + estimateTokens(line) > maxTok

\* The loop state of the line loop is ls = [chunks, lineChunk, lineTokens].
\* The flush test of line 289
LineFlush(ls, line, maxTok) ==
  ls.lineTokens + estimateTokens(line) > maxTok /\ Len(ls.lineChunk) > 0

\* Lines 290-294: the chunk is pushed and its last three lines are kept
LineOverlap(chunks, overlapLines) ==
  [chunks |-> chunks, lineChunk |-> overlapLines,
   lineTokens |-> estimateTokens(join(overlapLines, <<NL>>))]

\* Lines 296-297
PushLine(ls, line) ==
  [chunks |-> ls.chunks, lineChunk |-> Append(ls.lineChunk, line),
   lineTokens |-> ls.lineTokens + estimateTokens(line)]

\* Mutant of LineStep: two lines are kept for the overlap
LineStep_FourLines(ls, line, maxTok) ==
  PushLine(IF LineFlush(ls, line, maxTok)
           THEN LineOverlap(Append(ls.chunks, join(ls.lineChunk, <<NL>>)),
                            sliceLast(ls.lineChunk, 4))
           ELSE ls,
           line)

LineStep_TwoLines(ls, line, maxTok) ==
  PushLine(IF LineFlush(ls, line, maxTok)
           THEN LineOverlap(Append(ls.chunks, join(ls.lineChunk, <<NL>>)),
                            sliceLast(ls.lineChunk, 2))
           ELSE ls,
           line)

\* One iteration of the line loop of an oversized segment (lines 287-298)
LineStep(ls, line, maxTok) ==
  PushLine(IF LineFlush(ls, line, maxTok)
           THEN LineOverlap(Append(ls.chunks, join(ls.lineChunk, <<NL>>)),
                            sliceLast(ls.lineChunk, 3))
           ELSE ls,
           line)

RECURSIVE LineLoop(_, _, _)
LineLoop(ls, lines, maxTok) ==
  IF lines = <<>> THEN ls
  ELSE LineLoop(LineStep(ls, Head(lines), maxTok), Tail(lines), maxTok)

\* The loop state of the segment loop is st = [chunks, currentChunk, currentTokens].
\* Lines 276-280: the pending chunk is pushed
FlushPending(st) ==
  IF Len(st.currentChunk) > 0
  THEN Append(st.chunks, join(st.currentChunk, <<NL, NL>>))
  ELSE st.chunks

\* Mutant of HandOver: the lines left in lineChunk are forgotten
HandOver_Drop(ls) ==
  [chunks |-> ls.chunks, currentChunk |-> <<>>, currentTokens |-> 0]

\* Lines 300-303: the lines left in lineChunk become the elements of currentChunk
HandOver(ls) ==
  IF Len(ls.lineChunk) > 0
  THEN [chunks |-> ls.chunks, currentChunk |-> ls.lineChunk,
        currentTokens |-> ls.lineTokens]
  ELSE [chunks |-> ls.chunks, currentChunk |-> <<>>, currentTokens |-> 0]

\* Mutant of OversizedSegment: the pending chunk is reset without being pushed
OversizedSegment_DropPending(st, segment, maxTok) ==
  HandOver(LineLoop([chunks |-> st.chunks, lineChunk |-> <<>>, lineTokens |-> 0],
                    splitLines(segment), maxTok))

\* The branch of the segment loop for a segment that alone exceeds maxTokens
\* (lines 274-305)
OversizedSegment(st, segment, maxTok) ==
  HandOver(LineLoop([chunks |-> FlushPending(st), lineChunk |-> <<>>,
                     lineTokens |-> 0],
                    splitLines(segment), maxTok))

\* Mutant of SegmentFlush: the chunk is pushed when the limit is reached
SegmentFlush_AtLimit(st, segment, maxTok) ==
  st.currentTokens + estimateTokens(segment) >= maxTok /\ Len(st.currentChunk) > 0

\* The flush test of line 308
SegmentFlush(st, segment, maxTok) ==
  st.currentTokens + estimateTokens(segment) > maxTok /\ Len(st.currentChunk) > 0

LastSegment(st) == st.currentChunk[Len(st.currentChunk)]

\* Mutant of SegmentOverlap: the last segment is kept whatever its estimate
SegmentOverlap_Always(st, ovl) ==
  [chunks |-> FlushPending(st), currentChunk |-> <<LastSegment(st)>>,
   currentTokens |-> estimateTokens(LastSegment(st))]

\* Lines 309-319: the chunk is pushed; its last segment is kept when it fits
\* in the overlap
SegmentOverlap(st, ovl) ==
  IF estimateTokens(LastSegment(st)) <= ovl
  THEN [chunks |-> FlushPending(st), currentChunk |-> <<LastSegment(st)>>,
        currentTokens |-> estimateTokens(LastSegment(st))]
  ELSE [chunks |-> FlushPending(st), currentChunk |-> <<>>, currentTokens |-> 0]

\* Lines 322-323
PushSegment(st, segment) ==
  [chunks |-> st.chunks, currentChunk |-> Append(st.currentChunk, segment),
   currentTokens |-> st.currentTokens + estimateTokens(segment)]

\* The rest of the segment loop body (lines 307-323)
RegularSegment(st, segment, maxTok, ovl) ==
  PushSegment(IF SegmentFlush(st, segment, maxTok) THEN SegmentOverlap(st, ovl)
              ELSE st,
              segment)

\* One iteration of the segment loop (lines 270-324)
SegmentStep(st, segment, maxTok, ovl) ==
  IF estimateTokens(segment) > maxTok
  THEN OversizedSegment(st, segment, maxTok)
  ELSE RegularSegment(st, segment, maxTok, ovl)

RECURSIVE SegmentLoop(_, _, _, _)
SegmentLoop(st, segments, maxTok, ovl) ==
  IF segments = <<>> THEN st
  ELSE SegmentLoop(SegmentStep(st, Head(segments), maxTok, ovl),
                   Tail(segments), maxTok, ovl)

\* The default chunking strategy of chunkContent (lines 264-331); the last
\* chunk is pushed like a pending one (lines 326-329)
DefaultStrategy(text, maxTok, ovl) ==
  FlushPending(SegmentLoop([chunks |-> <<>>, currentChunk |-> <<>>,
                            currentTokens |-> 0],
                           splitIntoSegments(text), maxTok, ovl))

\* --------------------------------------------------- regular expressions
\* ^ and $ under the m flag
AtLineStart(s, p) == p = 1 \/ s[p - 1] = NL
AtLineEnd(s, p) == p = Len(s) + 1 \/ s[p] = NL

CharAt(s, p, c) == p >= 1 /\ p <= Len(s) /\ s[p] = c
ClassAt(s, p, Class) == p >= 1 /\ p <= Len(s) /\ s[p] \in Class

NotStar(s) == {s[i] : i \in 1..Len(s)} \ {"*"}
SepClass == {":"} \cup Whitespace

\* \*\*[^*]+\*\* starting at p, [^*]+ ending before position t2: the position
\* after the closing pair, or 0 when there is no match
BoldClose(s, p, t2) ==
  IF CharAt(s, p, "*") /\ CharAt(s, p + 1, "*") /\ t2 > p + 2
     /\ CharAt(s, t2, "*") /\ CharAt(s, t2 + 1, "*")
  THEN t2 + 2 ELSE 0

\* [^*]+ is greedy and stops at the first star, which must start the closing pair
BoldEnd(s, p) == BoldClose(s, p, RunEnd(s, p + 2, NotStar(s)))

\* The lookahead (?=\n\*\*[^*]+\*\*[:\s]|\n#{1,6}\s|$) at position q
SepAfter(s, e) == e # 0 /\ ClassAt(s, e, SepClass)

NextTermAhead(s, q) == CharAt(s, q, NL) /\ SepAfter(s, BoldEnd(s, q + 1))

HashesThenSpace(s, p, e) ==
  e - p >= 1 /\ e - p <= 6 /\ ClassAt(s, e, Whitespace)

NextHeadingAhead(s, q) ==
  CharAt(s, q, NL) /\ HashesThenSpace(s, q + 1, RunEnd(s, q + 1, {"#"}))

DefinitionStop(s, q) ==
  NextTermAhead(s, q) \/ NextHeadingAhead(s, q) \/ AtLineEnd(s, q)

\* ([\s\S]*?) is lazy: it ends at the first position where the lookahead holds
RECURSIVE LazyEnd(_, _)
LazyEnd(s, q) == IF DefinitionStop(s, q) THEN q ELSE LazyEnd(s, q + 1)

NoTerm(p) ==
  [matched |-> FALSE, index |-> p, end |-> p, term |-> <<>>, definition |-> <<>>]

TermRecord(s, p, sepStart, defStart, defEnd) ==
  [matched |-> TRUE, index |-> p, end |-> defEnd,
   term |-> SubSeq(s, p + 2, sepStart - 3),
   definition |-> SubSeq(s, defStart, defEnd - 1)]

\* [:\s]* is greedy; the lazy group that follows always finds a stop (the end of
\* the text at the latest), so the separator never gives characters back
TermDefinition(s, p, sepStart, defStart) ==
  TermRecord(s, p, sepStart, defStart, LazyEnd(s, defStart))

TermAfterBold(s, p, sepStart) ==
  IF AtLineStart(s, p) /\ sepStart # 0
  THEN TermDefinition(s, p, sepStart, RunEnd(s, sepStart, SepClass))
  ELSE NoTerm(p)

\* termPattern (lines 82-83) tried at position p
TermMatchAt(s, p) == TermAfterBold(s, p, BoldEnd(s, p))

\* The successive results of termPattern.exec(content) from lastIndex = from
RECURSIVE TermMatches(_, _), TermMatchesNext(_, _, _)
TermMatchesNext(s, from, m) ==
  IF m.matched THEN <<m>> \o TermMatches(s, m.end)
  ELSE TermMatches(s, from + 1)

TermMatches(s, from) ==
  IF from > Len(s) THEN <<>> ELSE TermMatchesNext(s, from, TermMatchAt(s, from))

NoMatch == [threw |-> FALSE, matched |-> FALSE, chunks |-> <<>>]
Matched(chunks) == [threw |-> FALSE, matched |-> TRUE, chunks |-> chunks]
NullIfEmpty(chunks) == IF Len(chunks) > 0 THEN Matched(chunks) ELSE NoMatch

\* `**${term}**: ${definition}` (line 94)
GlossaryChunk(m) ==
  <<"*", "*">> \o trim(m.term) \o <<"*", "*", ":", SP>> \o trim(m.definition)

\* Mutant of KeptMatch: only the term is tested
KeptMatch_TermOnly(m) == trim(m.term) # <<>>

\* if (term && definition) (line 92)
KeptMatch(m) == trim(m.term) # <<>> /\ trim(m.definition) # <<>>

\* The loop of lines 88-96
RECURSIVE GlossaryChunks(_)
GlossaryChunks(ms) ==
  IF ms = <<>> THEN <<>>
  ELSE (IF KeptMatch(Head(ms)) THEN <<GlossaryChunk(Head(ms))>> ELSE <<>>)
       \o GlossaryChunks(Tail(ms))

\* chunker.ts lines 79-104
chunkGlossary(text) == NullIfEmpty(GlossaryChunks(TermMatches(text, 1)))

\* sectionPattern /^(#{1,3}\s+.+)$/gm (line 116).  \s+ is greedy and gives
\* characters back until .+ finds a character that is not a line terminator:
\* the largest w in 1..r such that the character after w white spaces exists
\* and is no newline; 0 when there is none.
RECURSIVE HeaderSpaces(_, _, _)
HeaderSpaces(s, wsStart, w) ==
  IF w = 0 THEN 0
  ELSE IF wsStart + w <= Len(s) /\ s[wsStart + w] # NL THEN w
  ELSE HeaderSpaces(s, wsStart, w - 1)

NoHeader(p) == [matched |-> FALSE, index |-> p, end |-> p, match |-> <<>>]

\* .+ runs to the end of the line, where $ holds
HeaderRecord(s, p, e) ==
  [matched |-> TRUE, index |-> p, end |-> e, match |-> SubSeq(s, p, e - 1)]

HeaderAfterSpaces(s, p, wsStart, w) ==
  IF w >= 1 THEN HeaderRecord(s, p, IndexOf(s, NL, wsStart + w)) ELSE NoHeader(p)

\* #{1,3} must take the whole run of hashes, white space follows
HeaderAfterHashes(s, p, wsStart) ==
  IF AtLineStart(s, p) /\ wsStart - p >= 1 /\ wsStart - p <= 3
  THEN HeaderAfterSpaces(s, p, wsStart,
         HeaderSpaces(s, wsStart, RunEnd(s, wsStart, Whitespace) - wsStart))
  ELSE NoHeader(p)

HeaderMatchAt(s, p) == HeaderAfterHashes(s, p, RunEnd(s, p, {"#"}))

\* The successive results of sectionPattern.exec(content) (lines 122-124)
RECURSIVE HeaderMatches(_, _), HeaderMatchesNext(_, _, _)
HeaderMatchesNext(s, from, m) ==
  IF m.matched THEN <<m>> \o HeaderMatches(s, m.end)
  ELSE HeaderMatches(s, from + 1)

HeaderMatches(s, from) ==
  IF from > Len(s) THEN <<>>
  ELSE HeaderMatchesNext(s, from, HeaderMatchAt(s, from))

\* The loop state of subdivideSection is ss = [chunks, currentChunk, currentTokens].
\* The flush test of line 182
SectionFlush(ss, line, maxTok) ==
  ss.currentTokens + estimateTokens(line) > maxTok /\ Len(ss.currentChunk) > 1

\* Lines 183-185
SectionRestart(ss, header) ==
  [chunks |-> Append(ss.chunks, join(ss.currentChunk, <<NL>>)),
   currentChunk |-> <<header>>, currentTokens |-> estimateTokens(header)]

\* One iteration of the loop of subdivideSection (lines 178-190)
SectionLineStep(ss, line, maxTok, header) ==
  PushSegment(IF SectionFlush(ss, line, maxTok) THEN SectionRestart(ss, header)
              ELSE ss,
              line)

RECURSIVE SectionLineLoop(_, _, _, _)
SectionLineLoop(ss, lines, maxTok, header) ==
  IF lines = <<>> THEN ss
  ELSE SectionLineLoop(SectionLineStep(ss, Head(lines), maxTok, header),
                       Tail(lines), maxTok, header)

\* Lines 192-196
SectionLastChunk(ss) ==
  IF Len(ss.currentChunk) > 1
  THEN Append(ss.chunks, join(ss.currentChunk, <<NL>>))
  ELSE ss.chunks

\* chunker.ts lines 168-197
subdivideSection(section, maxTok, header) ==
  SectionLastChunk(
    SectionLineLoop([chunks |-> <<>>, currentChunk |-> <<header>>,
                     currentTokens |-> estimateTokens(header)],
                    Tail(splitLines(section)), maxTok, header))

\* The text of section i: from its header to the next header or the end,
\* trimmed (lines 135-137)
SectionEnd(text, headers, i) ==
  IF i < Len(headers) THEN headers[i + 1].index ELSE Len(text) + 1

SectionContent(text, headers, i) ==
  trim(SubSeq(text, headers[i].index, SectionEnd(text, headers, i) - 1))

\* Lines 139-151
SectionOrParts(sectionContent, maxTok, header) ==
  IF estimateTokens(sectionContent) <= maxTok THEN <<sectionContent>>
  ELSE subdivideSection(sectionContent, maxTok, header)

\* The section loop (lines 134-152)
RECURSIVE SectionLoop(_, _, _, _)
SectionLoop(text, headers, i, maxTok) ==
  IF i > Len(headers) THEN <<>>
  ELSE SectionOrParts(SectionContent(text, headers, i), maxTok, headers[i].match)
       \o SectionLoop(text, headers, i + 1, maxTok)

\* The content before the first header (lines 154-160)
Preamble(text, headers) ==
  IF headers[1].index > 1 THEN trim(SubSeq(text, 1, headers[1].index - 1))
  ELSE <<>>

WithPreamble(preamble, chunks) ==
  IF preamble # <<>> THEN <<preamble>> \o chunks ELSE chunks

SectionsOf(text, headers, maxTok) ==
  IF Len(headers) = 0 THEN NoMatch
  ELSE NullIfEmpty(WithPreamble(Preamble(text, headers),
                                SectionLoop(text, headers, 1, maxTok)))

\* chunker.ts lines 111-163
chunkByMarkdownSections(text, maxTok) ==
  SectionsOf(text, HeaderMatches(text, 1), maxTok)

\* ---------------------------------------------------------- ast-chunker.js
\* The parser (ts-morph) is outside the repository.  Its answer for the content
\* is the value ast = [throws, statements]: whether creating or reading the
\* source file throws, and the top-level statements in source order, each
\* [kind, fullText, jsDocs, exported, arrow] (getFullText() with the leading
\* trivia, the texts of getJsDocs(), hasExportKeyword(), whether the statement
\* has an ArrowFunction descendant).
KwExport == <<"e", "x", "p", "o", "r", "t", SP>>
KwClass == <<"c", "l", "a", "s", "s", SP>>
KwInterface == <<"i", "n", "t", "e", "r", "f", "a", "c", "e", SP>>
KwType == <<"t", "y", "p", "e", SP>>
KwFunction == <<"f", "u", "n", "c", "t", "i", "o", "n", SP>>
KwConst == <<"c", "o", "n", "s", "t", SP>>
KwPublic == <<"p", "u", "b", "l", "i", "c">>
KwPrivate == <<"p", "r", "i", "v", "a", "t", "e">>
KwProtected == <<"p", "r", "o", "t", "e", "c", "t", "e", "d">>
KwAsync == <<"a", "s", "y", "n", "c">>
ImportsHeader == <<"/", "/", SP, "I", "m", "p", "o", "r", "t", "s", NL>>

RECURSIVE OfKind(_, _)
OfKind(statements, kind) ==
  IF statements = <<>> THEN <<>>
  ELSE (IF Head(statements).kind = kind THEN <<Head(statements)>> ELSE <<>>)
       \o OfKind(Tail(statements), kind)

RECURSIVE ConcatFullText(_)
ConcatFullText(nodes) ==
  IF nodes = <<>> THEN <<>> ELSE Head(nodes).fullText \o ConcatFullText(Tail(nodes))

\* ast-chunker.js lines 137-144; null is the empty text, falsy like it
getLeadingComments(node) ==
  IF Len(node.jsDocs) > 0 THEN join(node.jsDocs, <<NL>>) ELSE <<>>

\* docs ? `${docs}\n${text}` : text
WithDocs(docs, text) == IF docs # <<>> THEN docs \o <<NL>> \o text ELSE text

ConstructChunk(node) == WithDocs(getLeadingComments(node), trim(node.fullText))

RECURSIVE ConstructChunks(_)
ConstructChunks(nodes) ==
  IF nodes = <<>> THEN <<>>
  ELSE <<ConstructChunk(Head(nodes))>> \o ConstructChunks(Tail(nodes))

\* Lines 24-29; importsText is trimmed
ImportChunkOf(importsText) ==
  IF importsText # <<>> THEN <<ImportsHeader \o importsText>> ELSE <<>>

ImportChunks(statements) ==
  ImportChunkOf(trim(ConcatFullText(OfKind(statements, "import"))))

\* The test of lines 56-57
RECURSIVE ExtractedVariables(_)
ExtractedVariables(nodes) ==
  IF nodes = <<>> THEN <<>>
  ELSE (IF Head(nodes).exported \/ Head(nodes).arrow THEN <<Head(nodes)>> ELSE <<>>)
       \o ExtractedVariables(Tail(nodes))

\* The declarations the source extracts, in source order
IsExtracted(node) ==
  \/ node.kind \in {"interface", "typeAlias", "class", "function"}
  \/ node.kind = "variable" /\ (node.exported \/ node.arrow)

SourceOrderNodes(statements) == SelectSeq(statements, IsExtracted)

\* Mutant of ExtractedNodes: one loop over the statements
ExtractedNodes_SourceOrder(statements) == SourceOrderNodes(statements)

\* Lines 30-62: the declarations in the order the source pushes their chunks
ExtractedNodes(statements) ==
  OfKind(statements, "interface")
  \o OfKind(statements, "typeAlias")
  \o OfKind(statements, "class")
  \o OfKind(statements, "function")
  \o ExtractedVariables(OfKind(statements, "variable"))

\* Lines 21-62
ExtractedChunks(statements) ==
  ImportChunks(statements) \o ConstructChunks(ExtractedNodes(statements))

\* Lines 95-101, on the trimmed line
IsDeclarationLine(line) ==
  \/ startsWith(line, KwExport) \/ startsWith(line, KwClass)
  \/ startsWith(line, KwInterface) \/ startsWith(line, KwType)
  \/ startsWith(line, KwFunction) \/ startsWith(line, KwConst)
  \/ \E kw \in {KwPublic, KwPrivate, KwProtected, KwAsync} :
       startsWith(line, kw) /\ ClassAt(line, Len(kw) + 1, Whitespace)

\* Lines 106-108
IsCommentLine(line) ==
  \/ startsWith(line, <<"/", "*">>) \/ startsWith(line, <<"*">>)
  \/ startsWith(line, <<"/", "/">>)

\* Lines 92-111: i counts from 1, headerEnd is a number of lines
RECURSIVE HeaderEnd(_, _, _)
HeaderEnd(lines, i, headerEnd) ==
  IF i > Len(lines) \/ i > 10 THEN headerEnd
  ELSE IF IsDeclarationLine(trim(lines[i])) THEN i
  ELSE IF IsCommentLine(trim(lines[i])) THEN HeaderEnd(lines, i + 1, i)
  ELSE HeaderEnd(lines, i + 1, headerEnd)

\* The loop state of subdivideCodeChunk is cs = [chunks, currentChunk, currentChars].
\* The flush test of line 119
CodeFlush(cs, line, maxChars) ==
  cs.currentChars + Len(line) + 1 > maxChars /\ Len(cs.currentChunk) > 0

\* Mutant of CodeSubChunk: the header is not repeated
CodeSubChunk_NoHeader(cs, header) == join(cs.currentChunk, <<NL>>)

\* header + "\n" + currentChunk.join("\n")
CodeSubChunk(cs, header) == header \o <<NL>> \o join(cs.currentChunk, <<NL>>)

\* Lines 121-123
CodeRestart(cs, header) ==
  [chunks |-> Append(cs.chunks, CodeSubChunk(cs, header)),
   currentChunk |-> <<>>, currentChars |-> Len(header)]

\* Mutant of PushCodeLine: the newline is not counted
PushCodeLine_NoNewline(cs, line) ==
  [chunks |-> cs.chunks, currentChunk |-> Append(cs.currentChunk, line),
   currentChars |-> cs.currentChars + Len(line)]

\* Lines 125-126
PushCodeLine(cs, line) ==
  [chunks |-> cs.chunks, currentChunk |-> Append(cs.currentChunk, line),
   currentChars |-> cs.currentChars + Len(line) + 1]

\* One iteration of the loop of subdivideCodeChunk (lines 116-127)
CodeLineStep(cs, line, maxChars, header) ==
  PushCodeLine(IF CodeFlush(cs, line, maxChars) THEN CodeRestart(cs, header)
               ELSE cs,
               line)

RECURSIVE CodeLineLoop(_, _, _, _)
CodeLineLoop(cs, lines, maxChars, header) ==
  IF lines = <<>> THEN cs
  ELSE CodeLineLoop(CodeLineStep(cs, Head(lines), maxChars, header),
                    Tail(lines), maxChars, header)

\* Lines 128-131
CodeLastChunk(cs, header) ==
  IF Len(cs.currentChunk) > 0 THEN Append(cs.chunks, CodeSubChunk(cs, header))
  ELSE cs.chunks

\* return chunks.length > 0 ? chunks : [chunk]
OrWhole(chunks, chunk) == IF Len(chunks) > 0 THEN chunks ELSE <<chunk>>

SubdivideWith(chunk, body, header, maxChars) ==
  OrWhole(CodeLastChunk(CodeLineLoop([chunks |-> <<>>, currentChunk |-> <<>>,
                                      currentChars |-> Len(header)],
                                     body, maxChars, header),
                        header),
          chunk)

SubdivideFrom(chunk, lines, headerEnd, maxChars) ==
  SubdivideWith(chunk, SubSeq(lines, headerEnd + 1, Len(lines)),
                join(SubSeq(lines, 1, headerEnd), <<NL>>), maxChars)

SubdivideLines(chunk, lines, maxChars) ==
  SubdivideFrom(chunk, lines, HeaderEnd(lines, 1, 0), maxChars)

\* ast-chunker.js lines 88-133
subdivideCodeChunk(chunk, maxChars) ==
  SubdivideLines(chunk, splitLines(chunk), maxChars)

\* Lines 67-76
RECURSIVE FinalChunks(_, _)
FinalChunks(chunks, maxChars) ==
  IF chunks = <<>> THEN <<>>
  ELSE (IF Len(Head(chunks)) > maxChars THEN subdivideCodeChunk(Head(chunks), maxChars)
        ELSE <<Head(chunks)>>)
       \o FinalChunks(Tail(chunks), maxChars)

\* The null test of lines 63-66
OnlyImportsOrNothing(chunks) == Len(chunks) <= 1

AstResult(chunks, maxChars) ==
  IF OnlyImportsOrNothing(chunks) THEN NoMatch
  ELSE Matched(FinalChunks(chunks, maxChars))

\* The body of the try block (lines 13-77); threw says that the parser threw
AstTry(parsed, maxChars) ==
  IF parsed.throws THEN [threw |-> TRUE, matched |-> FALSE, chunks |-> <<>>]
  ELSE AstResult(ExtractedChunks(parsed.statements), maxChars)

\* Mutant of Catch: no try/catch around the parser
Catch_Rethrow(r) == r

\* The catch of lines 79-82 turns a throw into null
Catch(r) == IF r.threw THEN NoMatch ELSE r

\* ast-chunker.js lines 11-83
chunkByAST(parsed, maxChars) == Catch(AstTry(parsed, maxChars))

\* ---------------------------------------------------------------- dispatcher
NoFile == "undefined"

\* Mutant of MaxCharsOf: 4 characters per token
MaxCharsOf_Four(maxTok) == 4 * maxTok

\* Mutant of MaxCharsOf: three characters per token
MaxCharsOf_Three(maxTok) == 3 * maxTok

\* Math.floor(maxTokens * 3.5)
MaxCharsOf(maxTok) == (7 * maxTok) \div 2

\* Mutant of Dispatch: plugin files are sent to the markdown strategy
Dispatch_PluginAsDoc(text, maxTok, f, parsed) ==
  CASE f = "glossary" ->
         [strategy |-> "chunkGlossary", arg |-> 0, out |-> chunkGlossary(text)]
    [] f \in {"knowledge", "doc", "plugin"} ->
         [strategy |-> "chunkByMarkdownSections", arg |-> maxTok,
          out |-> chunkByMarkdownSections(text, maxTok)]
    [] f \in {"code", "contract"} ->
         [strategy |-> "chunkByAST", arg |-> MaxCharsOf(maxTok),
          out |-> chunkByAST(parsed, MaxCharsOf(maxTok))]
    [] OTHER -> [strategy |-> "none", arg |-> 0, out |-> NoMatch]

\* The switch of chunkContent (lines 230-262): the strategy consulted, the
\* size it is given, and what it answers
Dispatch(text, maxTok, f, parsed) ==
  CASE f = "glossary" ->
         [strategy |-> "chunkGlossary", arg |-> 0, out |-> chunkGlossary(text)]
    [] f \in {"knowledge", "doc"} ->
         [strategy |-> "chunkByMarkdownSections", arg |-> maxTok,
          out |-> chunkByMarkdownSections(text, maxTok)]
    [] f \in {"code", "contract"} ->
         [strategy |-> "chunkByAST", arg |-> MaxCharsOf(maxTok),
          out |-> chunkByAST(parsed, MaxCharsOf(maxTok))]
    [] OTHER -> [strategy |-> "none", arg |-> 0, out |-> NoMatch]

\* Mutant of Outcome: a null answer ends the function with no chunk
Outcome_NoFallback(d, text, maxTok, ovl) ==
  [threw |-> d.out.threw,
   chunks |-> IF d.out.threw THEN <<>> ELSE d.out.chunks,
   strategy |-> d.strategy, arg |-> d.arg]

\* What chunkContent returns after the switch answered d: threw says that an
\* exception leaves the function; strategy and arg say what was consulted
Outcome(d, text, maxTok, ovl) ==
  [threw |-> d.out.threw,
   chunks |-> IF d.out.threw THEN <<>>
              ELSE IF d.out.matched THEN d.out.chunks
              ELSE DefaultStrategy(text, maxTok, ovl),
   strategy |-> d.strategy, arg |-> d.arg]

\* chunker.ts lines 224-332.  parsed is the parser's answer for text (used by
\* chunkByAST only).
chunkContent(text, maxTok, ovl, f, parsed) ==
  Outcome(Dispatch(text, maxTok, f, parsed), text, maxTok, ovl)

\* -------------------------------------------------------------------- inputs
\* Paragraphs, joined by a blank line, for the files no strategy is selected for
Paragraphs ==
  {<<"a", "b">>,
   <<"c", "d", "e", "f", "g">>,
   <<"h", "i", "j", NL, "k", "l", "m", NL, "n", NL, "o">>,
   <<SP>>,
   <<"#", SP, "p", NL, "*", "*", "q", "*", "*", ":", SP, "r">>}

\* Lines, joined by a newline, of markdown and of glossary files
MarkdownLines ==
  {<<>>,
   <<"a", "b">>,
   <<"#", SP, "h">>,
   <<"#", "#", SP, "i", "j", "k", "l", "m">>,
   <<"c", "d", "e", "f", "g", "h", "i">>,
   <<"#">>,
   <<"k", NL, "l">>}

GlossaryLines ==
  {<<>>,
   <<"*", "*", "t", "*", "*", ":", SP, "d">>,
   <<"*", "*", "u", "*", "*", ":">>,
   <<"a", "b">>,
   <<"#", SP, "h">>,
   <<"*", "*", SP, "*", "*", ":", SP, "x">>}

\* Top-level statements of a source file, one per line group; "blank" is an
\* empty line, which is no statement
CodePieces ==
  {[kind |-> "blank", text |-> <<>>,
     jsDocs |-> <<>>, exported |-> FALSE, arrow |-> FALSE],
   [kind |-> "import", text |-> <<"i", "m", "p", "o", "r", "t", SP, "\"", "m", "\"">>,
     jsDocs |-> <<>>, exported |-> FALSE, arrow |-> FALSE],
   [kind |-> "interface", text |-> <<"i", "n", "t", "e", "r", "f", "a", "c", "e", SP, "I", "{", "}">>,
     jsDocs |-> <<>>, exported |-> FALSE, arrow |-> FALSE],
   [kind |-> "typeAlias", text |-> <<"t", "y", "p", "e", SP, "T", NL, "=", NL, "1">>,
     jsDocs |-> <<>>, exported |-> FALSE, arrow |-> FALSE],
   [kind |-> "class", text |-> <<"/", "*", "*", "d", "*", "/", NL, "c", "l", "a", "s", "s", SP, "C", "{", "}">>,
     jsDocs |-> <<<<"/", "*", "*", "d", "*", "/">>>>, exported |-> FALSE, arrow |-> FALSE],
   [kind |-> "function", text |-> <<"f", "u", "n", "c", "t", "i", "o", "n", SP, "f", "(", ")", "{", NL, "x", NL, "}">>,
     jsDocs |-> <<>>, exported |-> FALSE, arrow |-> FALSE],
   [kind |-> "variable", text |-> <<"e", "x", "p", "o", "r", "t", SP, "c", "o", "n", "s", "t", SP, "c", "=", "1">>,
     jsDocs |-> <<>>, exported |-> TRUE, arrow |-> FALSE],
   [kind |-> "variable", text |-> <<"c", "o", "n", "s", "t", SP, "v", "=", "1">>,
     jsDocs |-> <<>>, exported |-> FALSE, arrow |-> FALSE],
   [kind |-> "variable", text |-> <<"c", "o", "n", "s", "t", SP, "g", "=", "(", ")", "=", ">", "1">>,
     jsDocs |-> <<>>, exported |-> FALSE, arrow |-> TRUE]}

PieceSeqs(V) == UNION {[1..n -> V] : n \in 0..MaxPieces}

RECURSIVE Texts(_)
Texts(pieces) ==
  IF pieces = <<>> THEN <<>> ELSE <<Head(pieces).text>> \o Texts(Tail(pieces))

\* What the parser returns for join(Texts(pieces), "\n"): the statements in
\* source order, each with its leading trivia (the newlines since the previous
\* statement) in fullText
RECURSIVE Statements(_, _)
Statements(pieces, trivia) ==
  IF pieces = <<>> THEN <<>>
  ELSE IF Head(pieces).kind = "blank"
  THEN Statements(Tail(pieces), trivia \o <<NL>>)
  ELSE <<[kind |-> Head(pieces).kind, fullText |-> trivia \o Head(pieces).text,
          jsDocs |-> Head(pieces).jsDocs, exported |-> Head(pieces).exported,
          arrow |-> Head(pieces).arrow]>>
       \o Statements(Tail(pieces), <<NL>>)

NoAst == [throws |-> FALSE, statements |-> <<>>]

DefaultInput ==
  /\ file \in {NoFile, "script", "plugin", "other"}
  /\ \E ps \in PieceSeqs(Paragraphs) : content = join(ps, <<NL, NL>>)
  /\ ast = NoAst

GlossaryInput ==
  /\ file = "glossary"
  /\ \E ps \in PieceSeqs(GlossaryLines) : content = join(ps, <<NL>>)
  /\ ast = NoAst

MarkdownInput ==
  /\ file \in {"knowledge", "doc"}
  /\ \E ps \in PieceSeqs(MarkdownLines) : content = join(ps, <<NL>>)
  /\ ast = NoAst

CodeInput ==
  /\ file \in {"code", "contract"}
  /\ \E ps \in PieceSeqs(CodePieces), throws \in BOOLEAN :
       /\ content = join(Texts(ps), <<NL>>)
       /\ ast = [throws |-> throws, statements |-> Statements(ps, <<>>)]

\* The locals of the default strategy while chunkContent runs: the paragraphs
\* and lines still to iterate over, and the states of the two loops
IdleLoop ==
  [at |-> "idle", segments |-> <<>>, lines |-> <<>>,
   st |-> [chunks |-> <<>>, currentChunk |-> <<>>, currentTokens |-> 0],
   ls |-> [chunks |-> <<>>, lineChunk |-> <<>>, lineTokens |-> 0],
   seen |-> 0, windows |-> <<>>]

\* No ingest run: the locals of ingest() are not in use
NoRun ==
  [status |-> "none", incremental |-> FALSE, files |-> <<>>, i |-> 0,
   processed |-> 0, skipped |-> 0, totalChunks |-> 0]

\* The global configuration (loadedConfig.chunking), the embedding model
\* selected by setModel, and the arguments a call leaves out
Models == {"nomic", "e5"}
ChunkingConfigs == [maxTokens : 0..MaxTokens, overlap : 0..MaxOverlap]

\* The file of the one source path followed, the rows of that path in each
\* chunks_<model> table (db.ts lines 23-25), its row in sync_state, the model
\* of db.ts (line 12), the position of an ingest run and the search requests
\* in flight
NoDisk == [exists |-> FALSE, text |-> <<>>]
NoTables == [m \in Models |-> <<>>]
NoSyncState == [row |-> FALSE, file_hash |-> [digest |-> <<>>]]
NoJob ==
  [status |-> "idle", incremental |-> FALSE, scanned |-> FALSE, chunks |-> <<>>,
   k |-> 0, errors |-> FALSE, quiet |-> TRUE, skipped |-> FALSE]
SearchRequests == {"r1", "r2"}
NoRequest == [at |-> "new", model |-> "nomic", embeddedWith |-> "none",
              table |-> "none"]

NoStore ==
  /\ disk = NoDisk
  /\ tables = NoTables
  /\ sync_state = NoSyncState
  /\ dbModel = "nomic"
  /\ job = NoJob
  /\ requests = [r \in SearchRequests |-> NoRequest]

StoreFrame == UNCHANGED <<disk, tables, sync_state, dbModel, job, requests>>

Init ==
  /\ pc = "ready"
  /\ result = <<>>
  /\ consulted = [strategy |-> "none", arg |-> 0]
  /\ raised = FALSE
  /\ maxTokens \in 0..MaxTokens
  /\ overlap \in 0..MaxOverlap
  /\ (DefaultInput \/ GlossaryInput \/ MarkdownInput \/ CodeInput)
  /\ chunking = [maxTokens |-> MaxTokens, overlap |-> MaxOverlap]
  /\ currentModel = "nomic"
  /\ omitted = "none"
  /\ loop = IdleLoop
  /\ run = NoRun
  /\ NoStore

\* ------------------------------------------------------------------- actions
Return(r) ==
  /\ pc' = "done"
  /\ result' = r.chunks
  /\ raised' = r.threw
  /\ consulted' = [strategy |-> r.strategy, arg |-> r.arg]
  /\ UNCHANGED <<content, maxTokens, overlap, file, ast, chunking, currentModel,
                 loop, run>>
  /\ StoreFrame

\* chunkContent(content, maxTokens, overlap, file)
ChunkContentWithFile ==
  /\ pc = "ready"
  /\ file # NoFile
  /\ Return(chunkContent(content, maxTokens, overlap, file, ast))
  /\ UNCHANGED omitted

\* chunkContent(content, maxTokens, overlap)
ChunkContentWithoutFile ==
  /\ pc = "ready"
  /\ file = NoFile
  /\ Return(chunkContent(content, maxTokens, overlap, NoFile, NoAst))
  /\ UNCHANGED omitted

Next == ChunkContentWithFile \/ ChunkContentWithoutFile

Spec == Init /\ [][Next]_vars

\* ------------------------------------------- calls that leave arguments out
\* Mutant of DefaultedMaxTokens: the configuration always wins
DefaultedMaxTokens_Always(o, maxTok, cfg) == cfg.maxTokens

\* maxTokens: number = CHUNK_CONFIG.maxTokens (chunker.ts line 226) and
\* maxTokens ?? CHUNK_CONFIG.maxTokens (line 353); o says what the call omits
DefaultedMaxTokens(o, maxTok, cfg) == IF o = "both" THEN cfg.maxTokens ELSE maxTok

\* overlap: number = CHUNK_CONFIG.overlap (line 227), CHUNK_CONFIG.overlap (line 354)
DefaultedOverlap(o, ovl, cfg) == IF o = "none" THEN ovl ELSE cfg.overlap

\* chunkFile lines 343-364 on the text read from the file: the contents of the
\* Chunk records; a blank text gives no chunk
chunkFile(text, maxTok, ovl, f, parsed) ==
  IF trim(text) = <<>>
  THEN [threw |-> FALSE, chunks |-> <<>>, strategy |-> "none", arg |-> 0]
  ELSE chunkContent(text, maxTok, ovl, f, parsed)

ConfigParagraphs ==
  {<<"g", "h">>,
   <<"a", NL, "b", NL, "c", NL, "d", NL, "e", NL, "f">>}

ConfigInit ==
  /\ pc = "ready"
  /\ result = <<>>
  /\ consulted = [strategy |-> "none", arg |-> 0]
  /\ raised = FALSE
  /\ maxTokens \in 0..MaxTokens
  /\ overlap \in 0..MaxOverlap
  /\ file \in {NoFile, "plugin"}
  /\ \E ps \in PieceSeqs(ConfigParagraphs) : content = join(ps, <<NL, NL>>)
  /\ ast = NoAst
  /\ chunking \in ChunkingConfigs
  /\ currentModel \in Models
  /\ omitted = "none"
  /\ loop = IdleLoop
  /\ run = NoRun
  /\ NoStore

\* chunkContent(content), chunkContent(content, maxTokens),
\* chunkContent(content, maxTokens, overlap), each with or without the file
ChunkContentOmitting ==
  /\ pc = "ready"
  /\ \E o \in {"none", "overlap", "both"} :
       /\ omitted' = o
       /\ Return(chunkContent(content, DefaultedMaxTokens(o, maxTokens, chunking),
                              DefaultedOverlap(o, overlap, chunking), file, ast))

\* chunkFile(file) and chunkFile(file, maxTokens); the overlap is never passed
ChunkFileCall ==
  /\ pc = "ready"
  /\ file # NoFile
  /\ \E o \in {"overlap", "both"} :
       /\ omitted' = o
       /\ Return(chunkFile(content, DefaultedMaxTokens(o, maxTokens, chunking),
                           DefaultedOverlap(o, overlap, chunking), file, ast))

\* loadConfig(explicitPath) replaces the configuration (embedder.ts lines 324-362)
LoadConfig ==
  /\ pc = "ready"
  /\ chunking' \in ChunkingConfigs \ {chunking}
  /\ UNCHANGED <<content, maxTokens, overlap, file, ast, pc, result, consulted,
                 raised, currentModel, omitted, loop, run>>
  /\ StoreFrame

\* setModel(modelName) (embedder.ts lines 14-17)
SetModel ==
  /\ pc = "ready"
  /\ currentModel' \in Models \ {currentModel}
  /\ UNCHANGED <<content, maxTokens, overlap, file, ast, pc, result, consulted,
                 raised, chunking, omitted, loop, run>>
  /\ StoreFrame

ConfigNext == ChunkContentOmitting \/ ChunkFileCall \/ LoadConfig \/ SetModel

ConfigSpec == ConfigInit /\ [][ConfigNext]_vars

\* ------------------------------------------------------------ an ingest run
\* A scanned file: its text, whether readFile succeeds on it, its sync state
\* ("none": no row, "same": the stored hash is the file's, "stale": it is not)
\* and whether embedding or storing one of its chunks fails
ScannedFiles ==
  [text : {<<>>, <<"g", "h">>}, readable : BOOLEAN,
   synced : {"none", "same", "stale"}, storeFails : BOOLEAN]

\* shouldProcessFile (ingest.ts lines 28-40); computeFileHash reads the file
\* and its rejection is not caught
shouldProcessFile(f, incremental) ==
  IF ~incremental \/ f.synced = "none" THEN [threw |-> FALSE, value |-> TRUE]
  ELSE IF ~f.readable THEN [threw |-> TRUE, value |-> FALSE]
  ELSE [threw |-> FALSE, value |-> f.synced = "stale"]

\* The number of chunks chunkFile(file) returns (chunker.ts lines 343-368): none
\* when the file cannot be read
ChunkCount(f, cfg) ==
  IF ~f.readable THEN 0
  ELSE Len(chunkFile(f.text, cfg.maxTokens, cfg.overlap, "plugin", NoAst).chunks)

\* processFile (ingest.ts lines 42-72): the number of chunks stored, 0 for an
\* empty file and for a failure, which is caught
processFile(f, cfg) ==
  IF ChunkCount(f, cfg) = 0 \/ f.storeFails THEN 0 ELSE ChunkCount(f, cfg)

FileSeqs == UNION {[1..n -> ScannedFiles] : n \in 1..MaxPieces}

IngestInit ==
  /\ pc = "ready"
  /\ result = <<>>
  /\ consulted = [strategy |-> "none", arg |-> 0]
  /\ raised = FALSE
  /\ maxTokens = MaxTokens
  /\ overlap = MaxOverlap
  /\ file = NoFile
  /\ content = <<>>
  /\ ast = NoAst
  /\ chunking = [maxTokens |-> MaxTokens, overlap |-> MaxOverlap]
  /\ currentModel = "nomic"
  /\ omitted = "none"
  /\ loop = IdleLoop
  /\ \E fs \in FileSeqs, inc \in BOOLEAN :
       run = [NoRun EXCEPT !.status = "running", !.incremental = inc, !.files = fs]
  /\ NoStore

IngestFrame ==
  /\ UNCHANGED <<content, maxTokens, overlap, file, ast, pc, result, consulted,
                 raised, chunking, currentModel, omitted, loop>>
  /\ StoreFrame

NextFile == run.files[run.i + 1]

\* Lines 112-118: the file is unchanged
SkipUnchanged ==
  /\ run.status = "running" /\ run.i < Len(run.files)
  /\ ~shouldProcessFile(NextFile, run.incremental).threw
  /\ ~shouldProcessFile(NextFile, run.incremental).value
  /\ run' = [run EXCEPT !.skipped = @ + 1, !.i = @ + 1]
  /\ IngestFrame

\* Lines 133-137: the file is processed
ProcessFile ==
  /\ run.status = "running" /\ run.i < Len(run.files)
  /\ ~shouldProcessFile(NextFile, run.incremental).threw
  /\ shouldProcessFile(NextFile, run.incremental).value
  /\ run' = [run EXCEPT
               !.processed = IF processFile(NextFile, chunking) > 0 THEN @ + 1 ELSE @,
               !.totalChunks = @ + processFile(NextFile, chunking),
               !.i = @ + 1]
  /\ IngestFrame

\* Line 112: shouldProcessFile rejects and the rejection leaves ingest()
ShouldProcessRejects ==
  /\ run.status = "running" /\ run.i < Len(run.files)
  /\ shouldProcessFile(NextFile, run.incremental).threw
  /\ run' = [run EXCEPT !.status = "aborted"]
  /\ IngestFrame

\* Lines 140-151: every file was visited
FinishRun ==
  /\ run.status = "running" /\ run.i = Len(run.files)
  /\ run' = [run EXCEPT !.status = "done"]
  /\ IngestFrame

IngestNext == SkipUnchanged \/ ProcessFile \/ ShouldProcessRejects \/ FinishRun

IngestSpec == IngestInit /\ [][IngestNext]_vars

\* ------------------------------- the default strategy, one iteration at a time
\* The call has reached the default strategy (lines 264-268)
StepInit ==
  /\ pc = "running"
  /\ result = <<>>
  /\ consulted = [strategy |-> "none", arg |-> 0]
  /\ raised = FALSE
  /\ maxTokens \in 0..MaxTokens
  /\ overlap \in 0..MaxOverlap
  /\ file = NoFile
  /\ \E ps \in PieceSeqs(ConfigParagraphs) : content = join(ps, <<NL, NL>>)
  /\ ast = NoAst
  /\ chunking = [maxTokens |-> MaxTokens, overlap |-> MaxOverlap]
  /\ currentModel = "nomic"
  /\ omitted = "none"
  /\ loop = [IdleLoop EXCEPT !.at = "segments",
                             !.segments = splitIntoSegments(content)]
  /\ run = NoRun
  /\ NoStore

StepFrame ==
  /\ UNCHANGED <<content, maxTokens, overlap, file, ast, consulted, raised, chunking,
                 currentModel, omitted, run>>
  /\ StoreFrame

\* History of a run, read by no step: loop.seen counts the paragraphs and lines
\* taken so far, loop.windows lists, per chunk pushed, the positions of the
\* first and the last of the paragraphs and lines that were in the buffer
Recorded(windows, before, after, buffer, seen) ==
  IF Len(after) > Len(before)
    THEN Append(windows, [from |-> seen + 1 - Len(buffer), to |-> seen])
    ELSE windows

\* Lines 307-323: an iteration of the paragraph loop, paragraph within maxTokens
RegularIteration ==
  /\ pc = "running" /\ loop.at = "segments" /\ loop.segments # <<>>
  /\ estimateTokens(Head(loop.segments)) <= maxTokens
  /\ loop' = [loop EXCEPT !.st = RegularSegment(loop.st, Head(loop.segments),
                                                maxTokens, overlap),
                          !.segments = Tail(loop.segments),
                          !.seen = @ + 1,
                          !.windows = Recorded(@, loop.st.chunks,
                            RegularSegment(loop.st, Head(loop.segments),
                                           maxTokens, overlap).chunks,
                            loop.st.currentChunk, loop.seen)]
  /\ UNCHANGED <<pc, result>>
  /\ StepFrame

\* Lines 274-285: an oversized paragraph; the pending chunk is pushed and the
\* line loop starts
BeginResplit ==
  /\ pc = "running" /\ loop.at = "segments" /\ loop.segments # <<>>
  /\ estimateTokens(Head(loop.segments)) > maxTokens
  /\ loop' = [loop EXCEPT !.at = "lines",
                          !.lines = splitLines(Head(loop.segments)),
                          !.ls = [chunks |-> FlushPending(loop.st),
                                  lineChunk |-> <<>>, lineTokens |-> 0],
                          !.windows = Recorded(@, loop.st.chunks,
                            FlushPending(loop.st), loop.st.currentChunk,
                            loop.seen)]
  /\ UNCHANGED <<pc, result>>
  /\ StepFrame

\* Lines 287-298: an iteration of the line loop
LineIteration ==
  /\ pc = "running" /\ loop.at = "lines" /\ loop.lines # <<>>
  /\ loop' = [loop EXCEPT !.ls = LineStep(loop.ls, Head(loop.lines), maxTokens),
                          !.lines = Tail(loop.lines),
                          !.seen = @ + 1,
                          !.windows = Recorded(@, loop.ls.chunks,
                            LineStep(loop.ls, Head(loop.lines), maxTokens).chunks,
                            loop.ls.lineChunk, loop.seen)]
  /\ UNCHANGED <<pc, result>>
  /\ StepFrame

\* Lines 300-304: the line loop is over; continue with the next paragraph
EndResplit ==
  /\ pc = "running" /\ loop.at = "lines" /\ loop.lines = <<>>
  /\ loop' = [loop EXCEPT !.at = "segments", !.st = HandOver(loop.ls),
                          !.segments = Tail(loop.segments)]
  /\ UNCHANGED <<pc, result>>
  /\ StepFrame

\* Lines 326-331: the paragraph loop is over; the last chunk is pushed
ReturnChunks ==
  /\ pc = "running" /\ loop.at = "segments" /\ loop.segments = <<>>
  /\ result' = FlushPending(loop.st)
  /\ pc' = "done"
  /\ loop' = [loop EXCEPT !.at = "returned",
                          !.windows = Recorded(@, loop.st.chunks,
                            FlushPending(loop.st), loop.st.currentChunk,
                            loop.seen)]
  /\ StepFrame

StepNext ==
  \/ RegularIteration \/ BeginResplit \/ LineIteration \/ EndResplit
  \/ ReturnChunks

\* A call that runs keeps running: nothing in the loops waits
StepSpec == StepInit /\ [][StepNext]_vars /\ WF_vars(StepNext)

\* ==================================================================== claims
Done == pc = "done"

Chars(s) == {s[i] : i \in 1..Len(s)}
NotWs(c) == ~IsWs(c)
NonWs(s) == SelectSeq(s, NotWs)
Blank(s) == trim(s) = <<>>

\* The position in a reached from i by matching, left to right, the elements
\* b[lo..hi] against the next unmatched element of a
RECURSIVE GreedyEnd(_, _, _, _, _)
GreedyEnd(a, i, b, lo, hi) ==
  IF i > Len(a) \/ lo > hi THEN i
  ELSE IF lo = hi THEN (IF a[i] = b[lo] THEN i + 1 ELSE i)
  ELSE GreedyEnd(a, GreedyEnd(a, i, b, lo, (lo + hi) \div 2), b,
                 (lo + hi) \div 2 + 1, hi)

\* a is b with some elements removed
IsSubseq(a, b) == GreedyEnd(a, 1, b, 1, Len(b)) = Len(a) + 1

\* What the selected strategy answers for the inputs of the state
Answer == Dispatch(content, maxTokens, file, ast).out
\* The result of the same call with no file
WithoutFile == chunkContent(content, maxTokens, overlap, NoFile, NoAst).chunks
\* floor(maxTokens * 3.5), written without the model's conversion
FloorChars == (35 * maxTokens) \div 10
CodeFile == file \in {"code", "contract"}
MarkdownFile == file \in {"knowledge", "doc"}

\* C1: chunkContent returns an empty list when the content is empty or
\* white space only, and a non-empty list otherwise, for every category.
C1_EmptyIffBlank == Done => ((Len(result) = 0) <=> Blank(content))

\* C1 witness: a non-empty white-space-only document of a category with a
\* strategy gave no chunk
C1_Witness ==
  /\ Done /\ file \in {"glossary", "knowledge", "code"}
  /\ Len(content) > 0 /\ Blank(content) /\ result = <<>>

\* C2 as stated: every non-white-space character of the input is in at least
\* one returned chunk, for every category.
C2_EveryCharacterKept ==
  Done => \A i \in 1..Len(content) :
            NotWs(content[i]) => \E k \in 1..Len(result) : content[i] \in Chars(result[k])

\* C2 amended: when the list is produced by the default strategy (no category,
\* a category with no strategy, or a strategy that answered null), the
\* non-white-space characters of the input all appear in the chunks, in order.
C2_DefaultCoverage ==
  (Done /\ ~Answer.matched) => IsSubseq(NonWs(content), NonWs(join(result, <<>>)))

\* C2 witness: several chunks of the default strategy, with duplicated overlap
C2_Witness ==
  /\ Done /\ ~Answer.matched /\ Len(result) >= 2
  /\ Len(NonWs(join(result, <<>>))) > Len(NonWs(content))

\* C3 as stated: every chunk of the default strategy or of the markdown
\* section strategy has an estimate <= maxTokens unless it is a single line.
C3_Bounded ==
  (Done /\ maxTokens >= 1 /\ (~Answer.matched \/ MarkdownFile)) =>
    \A k \in 1..Len(result) :
      estimateTokens(result[k]) <= maxTokens \/ NL \notin Chars(result[k])

\* C4: no exception leaves chunkContent; when the parser throws, chunkByAST
\* returns null and chunkContent returns the default strategy's output.
C4_ParseFailureFallsBack ==
  Done => /\ ~raised
          /\ (CodeFile /\ ast.throws) =>
               /\ chunkByAST(ast, FloorChars) = NoMatch
               /\ result = DefaultStrategy(content, maxTokens, overlap)

\* C4 witness: the parser threw on a file with declarations and chunks came back
C4_Witness ==
  /\ Done /\ CodeFile /\ ast.throws /\ Len(ast.statements) >= 2
  /\ ~raised /\ Len(result) >= 1

\* C5: when the strategy selected by the category answers null, the result is
\* the list the same call returns with no file, that is the list the default
\* strategy builds from the same content, maxTokens and overlap.
C5_FallbackIsDefault ==
  (Done /\ file \in {"glossary", "knowledge", "doc", "code", "contract"}
        /\ ~Answer.matched) =>
    /\ ~raised
    /\ result = DefaultStrategy(content, maxTokens, overlap)

\* C5 witness: a glossary file without any kept term, chunked by the default
\* strategy into two chunks
C5_Witness ==
  /\ Done /\ file = "glossary" /\ chunkGlossary(content) = NoMatch
  /\ Len(result) >= 2

\* C6: a file whose sourceType is script, plugin or outside the known types
\* gives the same list as no file.
C6_OtherTypesAsNoFile ==
  (Done /\ file \in {"script", "plugin", "other"}) =>
    /\ result = WithoutFile
    /\ result = DefaultStrategy(content, maxTokens, overlap)

\* C6 witness: a plugin file that holds a markdown heading and a bold term
C6_Witness ==
  /\ Done /\ file = "plugin" /\ "#" \in Chars(content) /\ "*" \in Chars(content)
  /\ Len(result) >= 1

\* C7: the category selects exactly one strategy and its size argument
\* (glossary: chunkGlossary; knowledge, doc: chunkByMarkdownSections with
\* maxTokens; code, contract: chunkByAST with floor(maxTokens * 3.5); others:
\* none), and a list answered by the strategy is returned unchanged.
C7_DispatchTable ==
  Done =>
    /\ file = "glossary" =>
         /\ consulted = [strategy |-> "chunkGlossary", arg |-> 0]
         /\ chunkGlossary(content).matched => result = chunkGlossary(content).chunks
    /\ MarkdownFile =>
         /\ consulted = [strategy |-> "chunkByMarkdownSections", arg |-> maxTokens]
         /\ chunkByMarkdownSections(content, maxTokens).matched =>
              result = chunkByMarkdownSections(content, maxTokens).chunks
    /\ CodeFile =>
         /\ consulted = [strategy |-> "chunkByAST", arg |-> FloorChars]
         /\ chunkByAST(ast, FloorChars).matched =>
              result = chunkByAST(ast, FloorChars).chunks
    /\ file \notin {"glossary", "knowledge", "doc", "code", "contract"} =>
         consulted = [strategy |-> "none", arg |-> 0]

\* C7 witness: a code file chunked by chunkByAST with maxChars = 10 for
\* maxTokens = 3
C7_Witness ==
  /\ Done /\ file = "contract" /\ maxTokens = 3 /\ consulted.arg = 10
  /\ Answer.matched /\ result = Answer.chunks /\ Len(result) >= 2

\* The chunks chunkByAST would return with the declarations in source order
SourceOrderChunks ==
  FinalChunks(ImportChunks(ast.statements)
              \o ConstructChunks(SourceOrderNodes(ast.statements)), FloorChars)

KindRank(kind) ==
  CASE kind = "interface" -> 1 [] kind = "typeAlias" -> 2 [] kind = "class" -> 3
    [] kind = "function" -> 4 [] OTHER -> 5

\* The sequences of declarations that hold the extracted declarations by
\* ascending kind rank and, within a kind, in source order
RECURSIVE StableByRank(_, _)
StableByRank(nodes, rank) ==
  IF rank > 5 THEN <<>>
  ELSE SelectSeq(nodes, LAMBDA n : KindRank(n.kind) = rank)
       \o StableByRank(nodes, rank + 1)

\* C8 as stated: after the import chunk, the chunks of chunkByAST follow the
\* source order of the declarations, whatever their kinds.
C8_SourceOrder ==
  (Done /\ CodeFile /\ Answer.matched) => result = SourceOrderChunks

\* C8 amended: after the import chunk, the chunks are grouped by kind in the
\* order interface, type alias, class, function, variable; within one kind
\* they follow the source order.
C8_KindThenSourceOrder ==
  (Done /\ CodeFile /\ Answer.matched) =>
    result = FinalChunks(ImportChunks(ast.statements)
                         \o ConstructChunks(StableByRank(SourceOrderNodes(ast.statements), 1)),
                         FloorChars)

\* C8 witness: a function written before an interface; the chunk of the
\* interface comes first
C8_Witness ==
  /\ Done /\ CodeFile /\ Answer.matched
  /\ Len(ast.statements) = 2
  /\ ast.statements[1].kind = "function" /\ ast.statements[2].kind = "interface"
  /\ result[1] = trim(ast.statements[2].fullText)

\* C9 as stated: chunkByAST returns null exactly when parsing fails or no
\* declaration was extracted; with at least one declaration it returns a list,
\* with or without imports.
C9_NullIffNoDeclaration ==
  (Done /\ CodeFile) =>
    (Answer.matched <=> (~ast.throws /\ Len(SourceOrderNodes(ast.statements)) >= 1))

\* The matches of termPattern in the content, and those the source keeps
Matches == TermMatches(content, 1)
KeptIndexes ==
  {i \in 1..Len(Matches) :
     ~Blank(Matches[i].term) /\ ~Blank(Matches[i].definition)}

RECURSIVE DocumentStop(_, _)
DocumentStop(s, q) ==
  IF q > Len(s) \/ NextTermAhead(s, q) \/ NextHeadingAhead(s, q) THEN q
  ELSE DocumentStop(s, q + 1)

\* Where the definition of match m starts: after the term's separator
DefinitionStart(m) == m.end - Len(m.definition)

\* C11 as stated: the definition of each glossary chunk is all the text after
\* the term's separator up to the next line that starts a bolded term, the
\* next heading line or the end of the document, several lines included.
C11_DefinitionToNextTerm ==
  (Done /\ file = "glossary" /\ Answer.matched) =>
    \A i \in KeptIndexes : \E k \in 1..Len(result) :
      result[k] = <<"*", "*">> \o trim(Matches[i].term) \o <<"*", "*", ":", SP>>
                  \o trim(SubSeq(content, DefinitionStart(Matches[i]),
                                 DocumentStop(content, DefinitionStart(Matches[i])) - 1))

Elements(seq) == {seq[i] : i \in 1..Len(seq)}
InResult(c) == \E k \in 1..Len(result) : result[k] = c

\* The headings of the content and the sections larger than maxTokens
Headers == HeaderMatches(content, 1)
OversizedSections ==
  {i \in 1..Len(Headers) :
     estimateTokens(SectionContent(content, Headers, i)) > maxTokens}
SubSections(i) ==
  subdivideSection(SectionContent(content, Headers, i), maxTokens, Headers[i].match)

\* The chunks of the constructs before subdivision, those longer than maxChars,
\* and the header lines of a construct chunk
Constructs == ExtractedChunks(ast.statements)
OversizedConstructs == {j \in 1..Len(Constructs) : Len(Constructs[j]) > FloorChars}
CodeHeader(chunk) ==
  join(SubSeq(splitLines(chunk), 1, HeaderEnd(splitLines(chunk), 1, 0)), <<NL>>)

C12_CodeWitness ==
  /\ Done /\ CodeFile /\ Answer.matched
  /\ \E j \in OversizedConstructs :
       /\ Len(subdivideCodeChunk(Constructs[j], FloorChars)) >= 2
       /\ Len(CodeHeader(Constructs[j])) > 0

\* A heading line of level 1-3 starts at p: one to three hashes at the start of
\* a line, white space on that line, then text on that line
HeadingLineAt(s, p) ==
  /\ AtLineStart(s, p)
  /\ RunEnd(s, p, {"#"}) - p \in 1..3
  /\ RunEnd(s, RunEnd(s, p, {"#"}), {SP}) > RunEnd(s, p, {"#"})
  /\ RunEnd(s, RunEnd(s, p, {"#"}), {SP}) <= Len(s)
  /\ s[RunEnd(s, RunEnd(s, p, {"#"}), {SP})] # NL

\* The positions of the heading lines of s, in order
HeadingPositions(s) == SelectSeq([p \in 1..Len(s) |-> p], LAMBDA p : HeadingLineAt(s, p))

\* The trimmed text from heading i to the next heading or the end
HeadingSection(s, pos, i) ==
  trim(SubSeq(s, pos[i], (IF i < Len(pos) THEN pos[i + 1] ELSE Len(s) + 1) - 1))

HeadingSections(s, pos) == [i \in 1..Len(pos) |-> HeadingSection(s, pos, i)]

\* The trimmed text before the first heading, as a list of zero or one chunk
PreambleChunk(s, pos) ==
  IF trim(SubSeq(s, 1, pos[1] - 1)) # <<>> THEN <<trim(SubSeq(s, 1, pos[1] - 1))>>
  ELSE <<>>

\* C13 as stated: for a knowledge or doc content with at least one heading
\* line of level 1-3 whose sections all fit in maxTokens, the result is the
\* non-blank trimmed preamble followed by one chunk per heading, in order,
\* each the trimmed text from its heading to the next heading or the end.
C13_OneChunkPerHeading ==
  (Done /\ MarkdownFile /\ Len(HeadingPositions(content)) >= 1
        /\ \A i \in 1..Len(HeadingPositions(content)) :
             estimateTokens(HeadingSection(content, HeadingPositions(content), i))
               <= maxTokens) =>
    result = PreambleChunk(content, HeadingPositions(content))
             \o HeadingSections(content, HeadingPositions(content))

\* The same statement for the contents whose pattern matches are exactly
\* their heading lines
C13_WhenMatchesAreHeadingLines ==
  (\A i \in 1..Len(Headers) : NL \notin Elements(Headers[i].match)) =>
    C13_OneChunkPerHeading

\* The list of the same call, same explicit arguments, under the configuration cfg
ResultUnder(cfg) ==
  chunkContent(content, IF omitted = "both" THEN cfg.maxTokens ELSE maxTokens,
               IF omitted = "none" THEN overlap ELSE cfg.overlap, file, ast).chunks

\* C14 as stated: two calls with the same explicit arguments, omitted ones
\* included, return equal lists whatever the global configuration is.
C14_NoAmbientConfiguration ==
  Done => \A cfg \in ChunkingConfigs : ResultUnder(cfg) = result

\* C14 amended: the list depends only on the arguments when maxTokens and
\* overlap are both passed; an omitted maxTokens or overlap is read from the
\* global configuration, so the list is the same under every configuration
\* that agrees on the omitted arguments.  The selected model is never read.
C14_ExplicitArgumentsOnly ==
  Done =>
    \A cfg \in ChunkingConfigs :
      (/\ omitted = "both" => cfg.maxTokens = chunking.maxTokens
       /\ omitted # "none" => cfg.overlap = chunking.overlap)
      => ResultUnder(cfg) = result

\* C14 witness: a call with both arguments passed whose list differs from the
\* one the configured maxTokens and overlap would give
C14_Witness ==
  /\ Done /\ omitted = "none" /\ Len(result) >= 2
  /\ chunkContent(content, chunking.maxTokens, chunking.overlap, file, ast).chunks
       # result

\* The iterations the call still has to make
RECURSIVE IterationsOf(_)
IterationsOf(segments) ==
  IF segments = <<>> THEN 0
  ELSE 2 + Len(splitLines(Head(segments))) + IterationsOf(Tail(segments))

IterationsLeft ==
  CASE loop.at = "segments" -> 1 + IterationsOf(loop.segments)
    [] loop.at = "lines" -> 2 + Len(loop.lines) + IterationsOf(Tail(loop.segments))
    [] OTHER -> 0

\* During the line loop, lineChunk is the run of lines of the paragraph that
\* ends with the line consumed last
ConsumedLines == Len(splitLines(Head(loop.segments))) - Len(loop.lines)

LineChunkIsRun(lines, n) ==
  /\ Len(loop.ls.lineChunk) <= n
  /\ n >= 1 => Len(loop.ls.lineChunk) >= 1
  /\ loop.ls.lineChunk = SubSeq(lines, n + 1 - Len(loop.ls.lineChunk), n)

\* An iteration of the line loop consumes the first remaining line; the chunk
\* it flushes, if any, is the non-empty lineChunk, whose last line was consumed
\* by the iteration before and is in no earlier chunk
LineIterationConsumes ==
  (loop.at = "lines" /\ loop'.at = "lines") =>
    /\ loop.lines # <<>> /\ loop'.lines = Tail(loop.lines)
    /\ loop'.segments = loop.segments
    /\ \/ loop'.ls.chunks = loop.ls.chunks
       \/ /\ Len(loop.ls.lineChunk) >= 1
          /\ loop'.ls.chunks =
               Append(loop.ls.chunks, join(loop.ls.lineChunk, <<NL>>))

\* An iteration of the paragraph loop consumes the first remaining paragraph
SegmentIterationConsumes ==
  (loop.at \in {"segments", "lines"} /\ loop'.at = "segments") =>
    loop.segments # <<>> /\ loop'.segments = Tail(loop.segments)

C16_FailureNeverAborts == run.status # "aborted"

\* C16, what holds: in full mode, and for files without a sync state, the
\* run never aborts; a failing file adds nothing to the counters and the loop
\* goes on to the next file.
C16_FullModeContinues ==
  /\ run.status = "aborted" =>
       /\ run.incremental /\ run.i < Len(run.files)
       /\ ~NextFile.readable /\ NextFile.synced # "none"
  /\ run.status = "done" => run.i = Len(run.files)
  /\ run.processed + run.skipped <= run.i

\* The texts estimateTokens is applied to in a call: the content, its
\* prefixes and the chunks returned
EstimatedTexts ==
  {SubSeq(content, 1, n) : n \in 0..Len(content)} \cup Elements(result)

\* n is the least integer with n >= 2 * len / 7
IsCeilOfTwoSevenths(n, len) == 7 * n >= 2 * len /\ 7 * (n - 1) < 2 * len

Front(seq) == SubSeq(seq, 1, Len(seq) - 1)

\* The step is an iteration of the loop named by at that pushes a chunk
ParagraphFlushStep ==
  /\ loop.at = "segments" /\ loop'.at = "segments"
  /\ loop'.st.chunks = Append(loop.st.chunks, join(loop.st.currentChunk, <<NL, NL>>))

LineFlushStep ==
  /\ loop.at = "lines" /\ loop'.at = "lines"
  /\ loop'.ls.chunks = Append(loop.ls.chunks, join(loop.ls.lineChunk, <<NL>>))

\* carried is the end of the buffer just pushed
IsTrailing(carried, buffer) ==
  /\ Len(carried) <= Len(buffer)
  /\ carried = SubSeq(buffer, Len(buffer) + 1 - Len(carried), Len(buffer))

\* C18 as stated: the content a chunk repeats from the end of the chunk before
\* it has an estimate <= overlap, in the paragraph loop and in the line
\* re-split of an oversized paragraph.
C18_OverlapBounded ==
  [][/\ ParagraphFlushStep =>
          estimateTokens(join(Front(loop'.st.currentChunk), <<NL, NL>>)) <= overlap
     /\ LineFlushStep =>
          estimateTokens(join(Front(loop'.ls.lineChunk), <<NL>>)) <= overlap]_vars

\* C18 amended: the content a chunk pushed by the paragraph loop hands to the
\* next chunk is the end of its buffer and has an estimate <= overlap.  The
\* chunks of a line re-split repeat the last lines of the chunk before them
\* whatever their estimate.
C18_ParagraphOverlapBounded ==
  [][ParagraphFlushStep =>
       /\ IsTrailing(Front(loop'.st.currentChunk), loop.st.currentChunk)
       /\ estimateTokens(join(Front(loop'.st.currentChunk), <<NL, NL>>)) <= overlap]_vars

\* C18 witness: the paragraph loop pushed a chunk and seeded the next buffer
\* with its last paragraph, and the next paragraph was added
C18_Witness ==
  /\ loop.at = "segments" /\ loop.st.chunks # <<>>
  /\ Len(loop.st.currentChunk) = 2
  /\ loop.st.chunks[Len(loop.st.chunks)] = loop.st.currentChunk[1]
  /\ estimateTokens(loop.st.currentChunk[1]) >= 1

\* The step is an iteration of the paragraph loop on a paragraph within maxTokens
RegularStep ==
  /\ loop.at = "segments" /\ loop'.at = "segments"
  /\ loop'.segments = Tail(loop.segments)

\* What the next buffer starts with after a flush of the buffer st.currentChunk
SeedAfterFlush(last) == IF estimateTokens(last) <= overlap THEN <<last>> ELSE <<>>

\* C19: the paragraph loop flushes exactly when the buffer is non-empty and the
\* running estimate plus the estimate of the next paragraph exceeds maxTokens;
\* the next buffer then starts with the last element of the flushed buffer if
\* and only if its estimate is <= overlap, and otherwise starts empty; the
\* paragraph is added after it.
C19_FlushAndSeed ==
  [][RegularStep =>
       IF Len(loop.st.currentChunk) > 0
          /\ loop.st.currentTokens + estimateTokens(Head(loop.segments)) > maxTokens
       THEN /\ loop'.st.chunks =
                 Append(loop.st.chunks, join(loop.st.currentChunk, <<NL, NL>>))
            /\ loop'.st.currentChunk =
                 Append(SeedAfterFlush(loop.st.currentChunk[Len(loop.st.currentChunk)]),
                        Head(loop.segments))
       ELSE /\ loop'.st.chunks = loop.st.chunks
            /\ loop'.st.currentChunk =
                 Append(loop.st.currentChunk, Head(loop.segments))]_vars

\* C19 witness: the buffer was flushed and, its last paragraph being above the
\* overlap, the next buffer holds the next paragraph only
C19_Witness ==
  /\ loop.at = "segments" /\ maxTokens >= 1 /\ overlap = 0
  /\ loop.st.chunks = <<<<"g", "h">>>>
  /\ loop.st.currentChunk = <<<<"g", "h">>>>

\* C19, the other branch: the last paragraph was within the overlap and
\* seeds the next buffer
C19_SeededWitness ==
  /\ loop.at = "segments" /\ maxTokens >= 1 /\ overlap = 1
  /\ loop.st.chunks = <<<<"g", "h">>>>
  /\ loop.st.currentChunk = <<<<"g", "h">>, <<"g", "h">>>>

MinOf(a, b) == IF a <= b THEN a ELSE b

\* The last k elements of a buffer
LastOf(buffer, k) == SubSeq(buffer, Len(buffer) + 1 - k, Len(buffer))

\* The characters of a paragraph, newlines apart
Letters(s) == Chars(s) \ {NL}

\* No returned chunk holds text of both paragraphs
KeptApart(before, oversized) ==
  \A k \in 1..Len(result) :
    Chars(result[k]) \cap Letters(before) = {}
      \/ Chars(result[k]) \cap Letters(oversized) = {}

\* Paragraph i shares no letter with another paragraph, so that its text is
\* told from theirs in a chunk
Unmistakable(segments, i) ==
  \A j \in 1..Len(segments) :
    j # i => Letters(segments[j]) \cap Letters(segments[i]) = {}

\* In the returned list, no chunk holds both text of a paragraph before an
\* oversized paragraph and lines of the oversized paragraph
PrecedingKeptApart(segments) ==
  \A i \in 2..Len(segments) : \A j \in 1..(i - 1) :
    (/\ estimateTokens(segments[i]) > maxTokens
     /\ Unmistakable(segments, i) /\ Unmistakable(segments, j))
    => KeptApart(segments[j], segments[i])

\* C20: an oversized paragraph first makes the pending buffer a chunk, with no
\* overlap into the line re-split, so no chunk holds both text that precedes
\* the oversized paragraph and lines of it; in the line re-split, after each
\* flush the next chunk begins with exactly the last min(3, n) lines of the
\* n lines just flushed, whatever their estimate, followed by the next line.
C20_OversizedParagraph ==
  /\ [](Done => PrecedingKeptApart(splitIntoSegments(content)))
  /\ [][/\ (loop.at = "segments" /\ loop'.at = "lines") =>
             /\ loop'.ls.lineChunk = <<>>
             /\ loop'.ls.chunks =
                  IF loop.st.currentChunk = <<>> THEN loop.st.chunks
                  ELSE Append(loop.st.chunks, join(loop.st.currentChunk, <<NL, NL>>))
        /\ LineFlushStep =>
             loop'.ls.lineChunk =
               Append(LastOf(loop.ls.lineChunk, MinOf(3, Len(loop.ls.lineChunk))),
                      Head(loop.lines))]_vars

\* C20 witness: the paragraph before the oversized one is a chunk of its own,
\* and the chunk of four lines just flushed hands its last three lines to the
\* next chunk, their estimate being above the overlap
C20_Witness ==
  /\ loop.at = "lines" /\ Len(loop.ls.chunks) = 3
  /\ loop.ls.chunks[1] = <<"g", "h">>
  /\ loop.ls.chunks[3] = <<"a", NL, "b", NL, "c", NL, "d">>
  /\ loop.ls.lineChunk = <<<<"b">>, <<"c">>, <<"d">>, <<"e">>>>
  /\ estimateTokens(<<"b", NL, "c", NL, "d">>) > overlap

\* The units of the input in order: the non-blank paragraphs, a paragraph
\* above maxTokens counting as its lines
RECURSIVE UnitsOf(_)
UnitsOf(segments) ==
  IF segments = <<>> THEN <<>>
  ELSE (IF estimateTokens(Head(segments)) > maxTokens
        THEN splitLines(Head(segments)) ELSE <<Head(segments)>>)
       \o UnitsOf(Tail(segments))

\* The number of units the loops have consumed so far
UnitsConsumed(all) ==
  IF loop.at = "lines"
  THEN Len(all) - Len(UnitsOf(Tail(loop.segments))) - Len(loop.lines)
  ELSE Len(all) - Len(UnitsOf(loop.segments))

\* The buffer being filled and the chunks pushed so far
BufferOf(l) == IF l.at = "lines" THEN l.ls.lineChunk ELSE l.st.currentChunk
PushedOf(l) == IF l.at = "lines" THEN l.ls.chunks ELSE l.st.chunks
SeparatorOf(l) == IF l.at = "lines" THEN <<NL>> ELSE <<NL, NL>>

\* The buffer is the run of units that ends with the unit consumed last
BufferIsRun(all, n, buffer) ==
  /\ Len(buffer) <= n
  /\ n >= 1 /\ loop.at = "segments" => Len(buffer) >= 1
  /\ buffer = SubSeq(all, n + 1 - Len(buffer), n)

\* Units leave the buffer only in a chunk: a step either keeps the buffer,
\* adding at most the unit it consumes, or pushes the whole buffer as one
\* chunk and keeps some of its last units as the overlap of the next one
BufferStep(before, after, pushed) ==
  \/ /\ pushed' = pushed
     /\ Len(after) >= Len(before)
     /\ SubSeq(after, 1, Len(before)) = before
  \/ /\ before # <<>>
     /\ pushed' = Append(pushed, join(before, SeparatorOf(loop)))
     /\ \E k \in 0..Len(before) :
          /\ k <= Len(after)
          /\ SubSeq(after, 1, k) = LastOf(before, k)
          /\ Len(after) <= k + 1

\* C21: in the default strategy every chunk is a run of consecutive units of
\* the input (non-blank paragraphs, the lines of an oversized paragraph), made
\* of units repeated from the end of the chunk before it followed by the
\* units consumed since; the runs follow each other without gap and in input
\* order, and the buffer left at the end of the input is the last chunk.
C21_UnitsInOrder ==
  /\ [](loop.at \in {"segments", "lines"} =>
          BufferIsRun(UnitsOf(splitIntoSegments(content)),
                      UnitsConsumed(UnitsOf(splitIntoSegments(content))),
                      BufferOf(loop)))
  /\ [][IF loop'.at = "returned"
        THEN /\ UnitsConsumed(UnitsOf(splitIntoSegments(content)))
                  = Len(UnitsOf(splitIntoSegments(content)))
             /\ result' = IF BufferOf(loop) = <<>> THEN PushedOf(loop)
                          ELSE Append(PushedOf(loop),
                                      join(BufferOf(loop), <<NL, NL>>))
        ELSE BufferStep(BufferOf(loop), BufferOf(loop'), PushedOf(loop))]_vars

\* C21 witness: the end of the input is reached after an oversized paragraph
\* was split by lines with overlap and a paragraph was added to its last lines
C21_Witness ==
  /\ Done /\ Len(result) >= 3
  /\ Len(UnitsOf(splitIntoSegments(content))) = 7
  /\ result[Len(result)] = <<"f", NL, NL, "g", "h">>

\* The lines after the first line of each chunk, in order
RECURSIVE BodyLinesOf(_)
BodyLinesOf(chunks) ==
  IF chunks = <<>> THEN <<>>
  ELSE Tail(splitLines(Head(chunks))) \o BodyLinesOf(Tail(chunks))

\* C22: in the sub-chunks of an oversized markdown section, the lines after
\* the heading line are the body lines of the section, each once and in
\* order; the heading line alone is repeated.
C22_BodyLinesOnce ==
  (Done /\ MarkdownFile /\ Answer.matched) =>
    \A i \in OversizedSections :
      /\ BodyLinesOf(SubSections(i))
           = Tail(splitLines(SectionContent(content, Headers, i)))
      /\ \A c \in Elements(SubSections(i)) : InResult(c)

\* C22 holds for the sections whose heading match is one line
C22_WhenHeadingIsOneLine ==
  (Done /\ MarkdownFile /\ Answer.matched) =>
    \A i \in OversizedSections :
      NL \notin Chars(Headers[i].match) =>
        /\ BodyLinesOf(SubSections(i))
             = Tail(splitLines(SectionContent(content, Headers, i)))
        /\ \A c \in Elements(SubSections(i)) : InResult(c)

\* c is a contiguous fragment of s
IsFragment(c, s) ==
  \E p \in 1..(Len(s) + 1) :
    p + Len(c) - 1 <= Len(s) /\ SubSeq(s, p, p + Len(c) - 1) = c

\* C23: every chunk of the default strategy is a contiguous fragment of the
\* input, the lines of a paragraph keeping their single newlines, also for
\* the lines of an oversized paragraph left in the buffer.
C23_ContiguousFragments ==
  (Done /\ ~Answer.matched) =>
    \A k \in 1..Len(result) : IsFragment(result[k], content)

\* C23 holds for the chunks pushed by the line loop of an oversized paragraph
C23_LineChunksAreFragments ==
  [][LineFlushStep => IsFragment(loop'.ls.chunks[Len(loop'.ls.chunks)], content)]_vars

\* C24: when the markdown section strategy returns a list, every heading it
\* detected is in at least one returned chunk, also the heading of an
\* oversized section that has no other line.
C24_NoSectionDropped ==
  (Done /\ MarkdownFile /\ Answer.matched) =>
    \A i \in 1..Len(Headers) :
      \E k \in 1..Len(result) : IsFragment(Headers[i].match, result[k])

\* C24 holds for the sections that fit in maxTokens or have a line after the
\* heading match
C24_SectionsWithBodyKept ==
  (Done /\ MarkdownFile /\ Answer.matched) =>
    \A i \in 1..Len(Headers) :
      (i \notin OversizedSections
         \/ Len(splitLines(SectionContent(content, Headers, i))) >= 2)
      => \E k \in 1..Len(result) : IsFragment(Headers[i].match, result[k])

\* The header and the body lines of a construct chunk, as subdivideCodeChunk
\* takes them
CodeBody(chunk) ==
  SubSeq(splitLines(chunk), HeaderEnd(splitLines(chunk), 1, 0) + 1,
         Len(splitLines(chunk)))

\* The state of the loop of subdivideCodeChunk after its first i iterations
CodeLoopAfter(body, i, maxChars, header) ==
  CodeLineLoop([chunks |-> <<>>, currentChunk |-> <<>>,
                currentChars |-> Len(header)],
               SubSeq(body, 1, i), maxChars, header)

\* The sub-chunk made of the buffer of cs: as long as the counter says, within
\* maxChars unless the buffer holds one line, and in the returned list
CountedSubChunk(cs, header, maxChars) ==
  /\ Len(CodeSubChunk(cs, header)) = cs.currentChars
  /\ cs.currentChars <= maxChars \/ Len(cs.currentChunk) = 1
  /\ InResult(CodeSubChunk(cs, header))

\* Iteration i: the buffer is then the run of body lines that ends with line
\* i; a flush pushes the run that ended with line i - 1 and restarts the
\* buffer with line i alone
CodeIteration(body, i, prev, cur, header, maxChars) ==
  /\ Len(cur.currentChunk) \in 1..i
  /\ cur.currentChunk = SubSeq(body, i + 1 - Len(cur.currentChunk), i)
  /\ \/ cur.chunks = prev.chunks /\ Len(cur.currentChunk) = Len(prev.currentChunk) + 1
     \/ /\ cur.chunks = Append(prev.chunks, CodeSubChunk(prev, header))
        /\ CountedSubChunk(prev, header, maxChars)
        /\ Len(cur.currentChunk) = 1

CodeLoopCounted(body, header, maxChars) ==
  /\ \A i \in 1..Len(body) :
       CodeIteration(body, i, CodeLoopAfter(body, i - 1, maxChars, header),
                     CodeLoopAfter(body, i, maxChars, header), header, maxChars)
  /\ body # <<>> =>
       CountedSubChunk(CodeLoopAfter(body, Len(body), maxChars, header), header,
                       maxChars)

\* C25 as stated: every sub-chunk returned by subdivideCodeChunk is as long as
\* currentChars said when it was flushed, and within maxChars unless it is the
\* header plus exactly one body line; the body lines are distributed in
\* order, each in one sub-chunk.
C25_CountedAndBounded ==
  (Done /\ CodeFile /\ Answer.matched) =>
    \A j \in OversizedConstructs :
      /\ CodeLoopCounted(CodeBody(Constructs[j]), CodeHeader(Constructs[j]),
                         FloorChars)
      /\ \A x \in Elements(subdivideCodeChunk(Constructs[j], FloorChars)) :
           \/ Len(x) <= FloorChars
           \/ \E l \in Elements(CodeBody(Constructs[j])) :
                x = CodeHeader(Constructs[j]) \o <<NL>> \o l

\* C25 amended: the same, for a construct that has lines after its header; a
\* construct with no line after its header is returned whole as the only
\* sub-chunk, above maxChars.
C25_CountedAndBoundedOrWhole ==
  (Done /\ CodeFile /\ Answer.matched) =>
    \A j \in OversizedConstructs :
      /\ CodeLoopCounted(CodeBody(Constructs[j]), CodeHeader(Constructs[j]),
                         FloorChars)
      /\ IF CodeBody(Constructs[j]) = <<>>
         THEN subdivideCodeChunk(Constructs[j], FloorChars) = <<Constructs[j]>>
         ELSE \A x \in Elements(subdivideCodeChunk(Constructs[j], FloorChars)) :
                \/ Len(x) <= FloorChars
                \/ \E l \in Elements(CodeBody(Constructs[j])) :
                     x = CodeHeader(Constructs[j]) \o <<NL>> \o l

\* C25 witness: a construct cut into several sub-chunks, one of them above
\* maxChars with a single body line
C25_Witness ==
  /\ Done /\ CodeFile /\ Answer.matched /\ maxTokens >= 1
  /\ \E j \in OversizedConstructs :
       /\ Len(subdivideCodeChunk(Constructs[j], FloorChars)) >= 2
       /\ \E x \in Elements(subdivideCodeChunk(Constructs[j], FloorChars)) :
            Len(x) > FloorChars /\ InResult(x)

\* C26: the character budget given to chunkByAST is the token budget: a text
\* of length L has L <= floor(maxTokens * 3.5) if and only if its estimate is
\* <= maxTokens; so a construct is subdivided exactly when its estimate is
\* above maxTokens.
C26_BudgetsAgree ==
  /\ Done =>
       \A t \in EstimatedTexts :
         Len(t) <= MaxCharsOf(maxTokens) <=> estimateTokens(t) <= maxTokens
  /\ (Done /\ CodeFile) =>
       /\ \A t \in EstimatedTexts :
            Len(t) <= consulted.arg <=> estimateTokens(t) <= maxTokens
       /\ \A j \in 1..Len(Constructs) :
            Len(Constructs[j]) > consulted.arg
              <=> estimateTokens(Constructs[j]) > maxTokens

\* C26 witness: a code file whose content has prefixes of exactly
\* floor(maxTokens * 3.5) characters and of one more, and a construct above
\* the budget
C26_Witness ==
  /\ Done /\ CodeFile /\ Answer.matched /\ maxTokens >= 1
  /\ Len(content) > consulted.arg
  /\ estimateTokens(SubSeq(content, 1, consulted.arg)) = maxTokens
  /\ estimateTokens(SubSeq(content, 1, consulted.arg + 1)) = maxTokens + 1
  /\ OversizedConstructs # {}

RECURSIVE LineUnits(_)
\* Which units are lines of an oversized paragraph, in the order of UnitsOf
LineUnits(segments) ==
  IF segments = <<>> THEN <<>>
  ELSE (IF estimateTokens(Head(segments)) > maxTokens
        THEN [i \in 1..Len(splitLines(Head(segments))) |-> TRUE]
        ELSE <<FALSE>>)
       \o LineUnits(Tail(segments))

\* The chunks whose window holds the unit at position u
ChunksHolding(windows, u) ==
  {k \in 1..Len(windows) : windows[k].from <= u /\ u <= windows[k].to}

\* Chunk k is the text of the units of its window
IsWindowText(chunk, all, w) ==
  /\ 1 <= w.from /\ w.from <= w.to /\ w.to <= Len(all)
  /\ \/ chunk = join(SubSeq(all, w.from, w.to), <<NL>>)
     \/ chunk = join(SubSeq(all, w.from, w.to), <<NL, NL>>)

DuplicationBounded(all, lineUnit, windows, chunks) ==
  /\ Len(windows) = Len(chunks)
  /\ \A k \in 1..Len(chunks) : IsWindowText(chunks[k], all, windows[k])
  /\ \A k \in 1..Len(windows) :
       windows[k].to > (IF k = 1 THEN 0 ELSE windows[k - 1].to)
  /\ \A u \in 1..Len(all) :
       Cardinality(ChunksHolding(windows, u)) <= (IF lineUnit[u] THEN 4 ELSE 2)

\* C27: in the output of the default strategy a paragraph occurrence is in at
\* most 2 chunks, a line of an oversized paragraph is in at most 4 chunks, and
\* every chunk holds a paragraph or line that no earlier chunk holds.
C27_DuplicationBounded ==
  (Done /\ loop.at = "returned") =>
    /\ loop.seen = Len(UnitsOf(splitIntoSegments(content)))
    /\ DuplicationBounded(UnitsOf(splitIntoSegments(content)),
                          LineUnits(splitIntoSegments(content)),
                          loop.windows, result)

\* C27 witness: a line of an oversized paragraph is in four chunks of the
\* output
C27_Witness ==
  /\ Done /\ loop.at = "returned"
  /\ \E u \in 1..loop.seen :
       /\ LineUnits(splitIntoSegments(content))[u]
       /\ Cardinality(ChunksHolding(loop.windows, u)) = 4

\* A paragraph within maxTokens is in two chunks of the output
C27_ParagraphWitness ==
  /\ Done /\ loop.at = "returned"
  /\ \E u \in 1..loop.seen :
       /\ ~LineUnits(splitIntoSegments(content))[u]
       /\ Cardinality(ChunksHolding(loop.windows, u)) = 2

\* ------------------------------------------- ingest runs over a stored file
\* createHash("md5").update(content).digest("hex") (ingest.ts lines 23-26):
\* the digest stands for the content it was computed from, collisions apart
md5(text) == [digest |-> text]

\* The texts the followed file can hold; one of them is blank
SyncTexts == ConfigParagraphs \cup {<<" ">>}

\* The contents of the chunks chunkFile returns for a text (chunker.ts lines
\* 343-364), in index order
ChunksOf(text) ==
  chunkFile(text, chunking.maxTokens, chunking.overlap, "plugin", NoAst).chunks

\* shouldProcessFile (ingest.ts lines 28-40): "process", "skip", or "throw"
\* when computeFileHash cannot read the file
needsProcessing(incremental, syncState, d) ==
  IF ~incremental \/ ~syncState.row THEN "process"
  ELSE IF ~d.exists THEN "throw"
  ELSE IF md5(d.text) # syncState.file_hash THEN "process" ELSE "skip"

\* INSERT ... ON CONFLICT (source_path, chunk_index) DO UPDATE (db.ts lines
\* 113-126) on the rows of the path, kept by chunk_index
insertChunk(rows, index, chunk) ==
  IF index < Len(rows) THEN [rows EXCEPT ![index + 1] = chunk]
  ELSE Append(rows, chunk)

SyncInit ==
  /\ pc = "ready"
  /\ result = <<>>
  /\ consulted = [strategy |-> "none", arg |-> 0]
  /\ raised = FALSE
  /\ maxTokens = MaxTokens
  /\ overlap = MaxOverlap
  /\ file = NoFile
  /\ content = <<>>
  /\ ast = NoAst
  /\ chunking = [maxTokens |-> MaxTokens, overlap |-> MaxOverlap]
  /\ currentModel = "nomic"
  /\ omitted = "none"
  /\ loop = IdleLoop
  /\ run = NoRun
  /\ disk \in {NoDisk} \cup {[exists |-> TRUE, text |-> t] : t \in SyncTexts}
  /\ tables = NoTables
  /\ sync_state = NoSyncState
  /\ dbModel = "nomic"
  /\ job = NoJob
  /\ requests = [r \in SearchRequests |-> NoRequest]

SyncFrame ==
  UNCHANGED <<content, maxTokens, overlap, file, ast, pc, result, consulted, raised,
              chunking, omitted, loop, run, requests>>

\* ingest(options) up to the file loop (dist/ingest.js lines 53-81): the model
\* asked for, or the default one, is set in embedder.ts and in db.ts, and the
\* sources are scanned; a file that does not exist is not in the list
StartIngest ==
  /\ job.status \in {"idle", "done", "aborted"}
  /\ \E inc \in BOOLEAN, m \in Models :
       /\ currentModel' = m
       /\ dbModel' = m
       /\ job' = [NoJob EXCEPT !.status = "loop", !.incremental = inc,
                               !.scanned = disk.exists]
  /\ UNCHANGED <<disk, tables, sync_state>>
  /\ SyncFrame

\* Lines 112-118 of ingest.ts: shouldProcessFile decides; its rejection is not
\* caught and ends the run
ShouldProcess ==
  /\ job.status = "loop" /\ job.scanned
  /\ job' = [job EXCEPT
       !.status = CASE needsProcessing(job.incremental, sync_state, disk) = "process"
                         -> "chunk"
                    [] needsProcessing(job.incremental, sync_state, disk) = "skip"
                         -> "end"
                    [] OTHER -> "aborted",
       !.skipped = needsProcessing(job.incremental, sync_state, disk) = "skip",
       !.errors = needsProcessing(job.incremental, sync_state, disk) = "throw"]
  /\ UNCHANGED <<disk, tables, sync_state, currentModel, dbModel>>
  /\ SyncFrame

\* processFile lines 46-52: chunkFile reads the file; no chunk (a blank file,
\* or a file that cannot be read, which chunkFile reports) ends processFile
ChunkFileStep ==
  /\ job.status = "chunk"
  /\ job' = IF ~disk.exists THEN [job EXCEPT !.status = "end", !.errors = TRUE]
            ELSE IF ChunksOf(disk.text) = <<>> THEN [job EXCEPT !.status = "end"]
            ELSE [job EXCEPT !.status = "delete", !.chunks = ChunksOf(disk.text)]
  /\ UNCHANGED <<disk, tables, sync_state, currentModel, dbModel>>
  /\ SyncFrame

\* Line 55: deleteChunksForFile (db.ts lines 172-176) on the table of the model
DeleteChunks ==
  /\ job.status = "delete"
  /\ tables' = [tables EXCEPT ![dbModel] = <<>>]
  /\ job' = [job EXCEPT !.status = "insert", !.k = 0]
  /\ UNCHANGED <<disk, sync_state, currentModel, dbModel>>
  /\ SyncFrame

\* Lines 58-61: the next chunk is embedded and inserted
InsertNext ==
  /\ job.status = "insert" /\ job.k < Len(job.chunks)
  /\ tables' = [tables EXCEPT
                  ![dbModel] = insertChunk(@, job.k, job.chunks[job.k + 1])]
  /\ job' = [job EXCEPT !.k = @ + 1]
  /\ UNCHANGED <<disk, sync_state, currentModel, dbModel>>
  /\ SyncFrame

\* Lines 59 and 68-71: getEmbedding throws (embedder.ts lines 40-44); the
\* error is reported and processFile returns 0
EmbeddingFails ==
  /\ job.status = "insert" /\ job.k < Len(job.chunks)
  /\ job' = [job EXCEPT !.status = "end", !.errors = TRUE]
  /\ UNCHANGED <<disk, tables, sync_state, currentModel, dbModel>>
  /\ SyncFrame

\* Lines 63-65: the file is read again for its hash, which is recorded
UpdateSync ==
  /\ job.status = "insert" /\ job.k = Len(job.chunks)
  /\ IF disk.exists
       THEN /\ sync_state' = [row |-> TRUE, file_hash |-> md5(disk.text)]
            /\ job' = [job EXCEPT !.status = "end"]
       ELSE /\ sync_state' = sync_state
            /\ job' = [job EXCEPT !.status = "end", !.errors = TRUE]
  /\ UNCHANGED <<disk, tables, currentModel, dbModel>>
  /\ SyncFrame

\* Lines 140-151: every scanned file was visited
FinishIngest ==
  /\ job.status = "end" \/ (job.status = "loop" /\ ~job.scanned)
  /\ job' = [job EXCEPT !.status = "done"]
  /\ UNCHANGED <<disk, tables, sync_state, currentModel, dbModel>>
  /\ SyncFrame

\* Somebody writes the file, at any moment; job.quiet remembers that the
\* files were changed after the run started
WriteFile ==
  /\ \E t \in SyncTexts :
       /\ disk # [exists |-> TRUE, text |-> t]
       /\ disk' = [exists |-> TRUE, text |-> t]
  /\ job' = [job EXCEPT !.quiet = FALSE]
  /\ UNCHANGED <<tables, sync_state, currentModel, dbModel>>
  /\ SyncFrame

\* Somebody deletes the file
DeleteFile ==
  /\ disk.exists
  /\ disk' = NoDisk
  /\ job' = [job EXCEPT !.quiet = FALSE]
  /\ UNCHANGED <<tables, sync_state, currentModel, dbModel>>
  /\ SyncFrame

SyncNext ==
  \/ StartIngest \/ ShouldProcess \/ ChunkFileStep \/ DeleteChunks \/ InsertNext
  \/ EmbeddingFails \/ UpdateSync \/ FinishIngest \/ WriteFile \/ DeleteFile

SyncSpec == SyncInit /\ [][SyncNext]_vars

\* The rows the store should hold for the file as it is on disk
CurrentChunks == IF disk.exists THEN ChunksOf(disk.text) ELSE <<>>

\* The run ended without a reported error and the file was left alone
\* while it ran
CleanRun == job.status = "done" /\ ~job.errors /\ job.quiet

\* C28: after an ingest run that reported no error, the store holds for the
\* source path exactly the chunks of the file's current content, in index
\* order: none for a file that became blank or was deleted.
C28_StoreMatchesFiles == CleanRun => tables[dbModel] = CurrentChunks

\* What does hold: a file that was processed and has at least one chunk has
\* exactly its chunks in the table of the model
C28_ProcessedNonBlank ==
  (CleanRun /\ job.chunks # <<>>) => tables[dbModel] = CurrentChunks

\* A modified file had more chunks before than now and all were replaced
C28_ReplacedWitness ==
  /\ CleanRun /\ job.chunks # <<>>
  /\ Len(tables[dbModel]) = 1
  /\ \E m \in Models : m # dbModel /\ Len(tables[m]) > 1

\* C29: in an incremental run the file is skipped as unchanged only if the
\* chunks stored in the table of the model in use are those of its current
\* content, and a hash is recorded in sync_state only when the table holds the
\* chunks of the content it was computed from.
C29_SkipOnlyIfStored ==
  /\ [][(job'.skipped /\ ~job.skipped) => tables[dbModel] = CurrentChunks]_vars
  /\ [][sync_state' # sync_state
          => tables'[dbModel'] = ChunksOf(sync_state'.file_hash.digest)]_vars

\* What does hold: the file is skipped only when its hash is the recorded one
C29_SkipOnlyIfSameHash ==
  [][(job'.skipped /\ ~job.skipped)
       => sync_state.row /\ sync_state.file_hash = md5(disk.text)]_vars

\* --------------------------------------------- MCP search requests in flight
SearchInit ==
  /\ pc = "ready"
  /\ result = <<>>
  /\ consulted = [strategy |-> "none", arg |-> 0]
  /\ raised = FALSE
  /\ maxTokens = MaxTokens
  /\ overlap = MaxOverlap
  /\ file = NoFile
  /\ content = <<>>
  /\ ast = NoAst
  /\ chunking = [maxTokens |-> MaxTokens, overlap |-> MaxOverlap]
  /\ currentModel \in Models
  /\ omitted = "none"
  /\ loop = IdleLoop
  /\ run = NoRun
  /\ disk = NoDisk
  /\ tables = NoTables
  /\ sync_state = NoSyncState
  /\ dbModel = currentModel
  /\ job = NoJob
  /\ requests = [r \in SearchRequests |-> NoRequest]

SearchFrame ==
  UNCHANGED <<content, maxTokens, overlap, file, ast, pc, result, consulted, raised,
              chunking, omitted, loop, run, disk, tables, sync_state, job>>

\* The search and rag handlers up to their first await (part_012 lines 74-81
\* and 190-197): setModel(model) and setDbModel(modelConfig) set the model of
\* embedder.ts (lines 14-17) and of db.ts (lines 16-18)
BeginRequest(r) ==
  /\ requests[r].at = "new"
  /\ \E m \in Models :
       /\ currentModel' = m
       /\ dbModel' = m
       /\ requests' = [requests EXCEPT ![r].at = "checkOllama", ![r].model = m]
  /\ SearchFrame

\* Lines 81-90: Ollama does not answer and the handler returns an error text
OllamaUnavailable(r) ==
  /\ requests[r].at = "checkOllama"
  /\ requests' = [requests EXCEPT ![r].at = "returned"]
  /\ UNCHANGED <<currentModel, dbModel>>
  /\ SearchFrame

\* Line 105: checkOllama has answered; getEmbedding(query) posts the query
\* with currentModel.ollamaModel as it is now (embedder.ts lines 30-39)
GetEmbedding(r) ==
  /\ requests[r].at = "checkOllama"
  /\ requests' = [requests EXCEPT ![r].at = "getEmbedding",
                                  ![r].embeddedWith = currentModel]
  /\ UNCHANGED <<currentModel, dbModel>>
  /\ SearchFrame

\* Lines 109-111: the embedding has arrived; searchSimilar or searchHybrid
\* awaits getPool() and then reads the table name of the model of db.ts as it
\* is now (db.ts lines 186-187)
SearchSimilar(r) ==
  /\ requests[r].at = "getEmbedding"
  /\ requests' = [requests EXCEPT ![r].at = "returned", ![r].table = dbModel]
  /\ UNCHANGED <<currentModel, dbModel>>
  /\ SearchFrame

SearchNext ==
  \E r \in SearchRequests :
    \/ BeginRequest(r) \/ OllamaUnavailable(r) \/ GetEmbedding(r)
    \/ SearchSimilar(r)

SearchSpec == SearchInit /\ [][SearchNext]_vars

\* C30: every request computes its embedding with the model it asked for and
\* searches the chunk table of that model, whatever the other requests in
\* flight select.
C30_OwnModel ==
  \A r \in SearchRequests :
    /\ requests[r].embeddedWith \in {"none", requests[r].model}
    /\ requests[r].table \in {"none", requests[r].model}

\* What does hold: a request uses the model that was selected last
C30_LastSelectedModel ==
  [][\A r \in SearchRequests :
       /\ requests'[r].embeddedWith # requests[r].embeddedWith
            => requests'[r].embeddedWith = currentModel
       /\ requests'[r].table # requests[r].table
            => requests'[r].table = dbModel]_vars

\* A request embedded its query with one model and searched the table of
\* another one
C30_MixedWitness ==
  \E r \in SearchRequests :
    /\ requests[r].at = "returned"
    /\ requests[r].embeddedWith \in Models
    /\ requests[r].table \in Models \ {requests[r].embeddedWith}

====
